---- MODULE Spec2Model ----
(***************************************************************************)
(* A model of censaurus' geographic entity resolution engine:              *)
(*   - Layer._paginate_through_features        (censaurus/tiger.py)        *)
(*   - Geography._build_geography_params        (censaurus/geography.py)   *)
(*   - Area and its lazily bound _set_attributes (censaurus/tiger.py)      *)
(*   - Layer.get_area_by_name                   (censaurus/tiger.py)       *)
(*   - Layer._get_feature_geometry              (censaurus/tiger.py)       *)
(* Each component has its own specification over the shared variables; a   *)
(* component that a specification does not exercise stays in its idle      *)
(* state.                                                                  *)
(***************************************************************************)
EXTENDS Integers, Sequences, FiniteSets, TLC

VARIABLES
    \* ---- Layer._paginate_through_features
    pc,                     \* position inside the call
    feature_count,          \* argument feature_count
    result_record_count,    \* argument / local result_record_count
    tries,                  \* local tries
    result_offset,          \* local result_offset
    retrieved_all,          \* local retrieved_all
    params_list,            \* the page requests of the wave just built
    all_feature_responses,  \* local all_feature_responses
    exception,              \* the exception that left the call, or NoException
    wave,                   \* ghost: waves built in the current attempt
    attempt_sizes,          \* ghost: page size at the start of every attempt
    api_errors,             \* ghost: TIGERWebAPIErrors caught so far
    discarded,              \* ghost: responses of failed attempts dropped so far
    \* ---- Geography._build_geography_params
    geography,              \* self: [name, requires, wildcard]
    geo_filters,            \* the caller's geo_filters dict (mutated in place)
    geo_result,             \* what the last call returned or raised
    geo_supplied,           \* ghost: geo_filters as the last call received it
    geo_calls,              \* ghost: calls made so far
    \* ---- Area
    area_args,              \* how the Area was built: [source, clip_to_cb, feature]
    area,                   \* the Area object's fields
    US_CARTOGRAPHIC,        \* the module-level national boundary Area (its geometry)
    area_log,               \* ghost: fetches, resolutions, the last operation
    \* ---- Layer.get_area_by_name
    match_pc,               \* position inside the call
    features,               \* features['detailed_name'], indexed by GEOID
    parsed_name_token_set,  \* local parsed_name_token_set
    custom_scorer,          \* score of the query against every detailed name
    best_matches,           \* local best_matches
    all_missing_tokens,     \* the tokens the refinement loop has yet to try
    new_matches_found,      \* local new_matches_found
    geoid,                  \* local geoid
    match_result,           \* what the call returned or raised
    confident_shortlists,   \* ghost: new_best_matches of every confident addition
    \* ---- Layer._get_feature_geometry
    fg_pc,                  \* position inside the call
    layer_features,         \* the features of the layer on the service
    within_geometry,        \* argument within_geometry
    area_threshold,         \* argument area_threshold
    object_ids,             \* argument object_ids
    fetched_gdf,            \* ghost: gdf as converted from the responses
    gdf,                     \* the returned gdf
    \* ---- Layer._convert_feature_responses_to_gdf
    convert_pc,             \* position inside the call
    feature_responses,      \* argument: per response, the ids of its 'features'
    converted_gdf,           \* the returned gdf: one row per feature, by id
    \* ---- CensusClient.get_many / TIGERClient.get_many
    batch_pc,               \* position inside the call
    chunk_size,             \* self.chunk_size
    tasks,                  \* local tasks: the state of every task, in order
    chunk,                  \* index of the chunk being gathered (0-based)
    batch_responses,         \* local responses (by task index)
    \* ---- CensusClient.get / TIGERClient.get
    get_pc,                 \* position inside the call
    client,                 \* which client: "census" or "tiger"
    api_key,                \* self.api_key (Census client): None or a key
    retry_limit,            \* self.retry_limit: None or a number
    retry_count,            \* local retry_count
    response,               \* local response: Unbound, None or a response
    get_result,              \* how the call ended
    \* ---- GeographyCollection._build_geography_params_from_level
    level_pc,               \* position inside the call
    level_mode,             \* called with level= or with name=
    level_geographies,      \* the geographies self.get finds, in collection order
    level_filters,          \* the caller's geo_filters dict (mutated in place)
    level_supplied,         \* ghost: geo_filters as the caller supplied it
    level_result,            \* what the call returned or raised
    \* ---- GeographyCollection._build_geography_params_from_features_within
    fw_pc,                  \* position inside the call
    fw_geographies,         \* the geographies self.get(name=target) finds
    features_within,        \* argument: per feature, its attributes
    fw_result,               \* what the call returned or raised
    \* ---- build_custom_scorer inside Layer.get_area_by_name
    sc_pc,                  \* position inside the call
    detailed_names,         \* features['detailed_name'], in the features' order
    parsed_name,            \* parse_name(name), the query
    idf_map,                \* idf_map of build_custom_scorer
    padding_costs,          \* token_distance_idf(t, '') calls made, with results
    sc_best_matches,        \* first shortlist
    sc_result,               \* what the call returned or raised
    \* ---- two threads calling _set_attributes on one Area
    th_args,                \* how the Area was built: [source, clip_to_cb]
    th_pc,                  \* per thread: position inside _set_attributes
    th_flag,                \* the Area's _attributes_are_set
    th_fetches,             \* ghost: resolving fetches performed so far
    th_saw_unset,            \* ghost: threads that found the flag unset
    \* ---- AreaCollection.area_multilayer
    ml_pc,                  \* "start" | "done"
    ml_layer_names,         \* the layer_names list handed in by place / MSA
    ml_specific_layer,      \* Option: specific_layer
    ml_cb,                  \* the caller's cb
    ml_available,           \* names of the collection's available layers
    ml_matching,            \* layers whose search finds the name / identifier
    ml_result,               \* what the call returned or raised
    \* ---- Layer.get_features
    gf_pc,                  \* "start" | "done"
    gf_layer,               \* the features the layer holds
    gf_within,              \* Option: within_geometry
    gf_threshold,           \* Option: area_threshold
    gf_return_attributes,
    gf_return_geometry,
    gf_requests,            \* the requests posted, in order
    gf_attribute_ids,       \* Option: OBJECTIDs the attribute query returned
    gf_result               \* Option: what the call returned or raised

paginateVars == <<pc, feature_count, result_record_count, tries, result_offset,
                  retrieved_all, params_list, all_feature_responses, exception,
                  wave, attempt_sizes, api_errors, discarded>>

geographyVars == <<geography, geo_filters, geo_result, geo_supplied, geo_calls>>

areaVars == <<area_args, area, US_CARTOGRAPHIC, area_log>>

matchVars == <<match_pc, features, parsed_name_token_set, custom_scorer,
               best_matches, all_missing_tokens, new_matches_found, geoid,
               match_result, confident_shortlists>>

filterVars == <<fg_pc, layer_features, within_geometry, area_threshold, object_ids,
                fetched_gdf, gdf>>

convertVars == <<convert_pc, feature_responses, converted_gdf>>

batchVars == <<batch_pc, chunk_size, tasks, chunk, batch_responses>>

getVars == <<get_pc, client, api_key, retry_limit, retry_count, response, get_result>>

levelVars == <<level_pc, level_mode, level_geographies, level_filters,
               level_supplied, level_result>>

withinVars == <<fw_pc, fw_geographies, features_within, fw_result>>

scorerVars == <<sc_pc, detailed_names, parsed_name, idf_map, padding_costs,
                sc_best_matches, sc_result>>

threadVars == <<th_args, th_pc, th_flag, th_fetches, th_saw_unset>>

multilayerVars == <<ml_pc, ml_layer_names, ml_specific_layer, ml_cb, ml_available,
                    ml_matching, ml_result>>

featuresVars == <<gf_pc, gf_layer, gf_within, gf_threshold, gf_return_attributes,
                  gf_return_geometry, gf_requests, gf_attribute_ids, gf_result>>

vars == <<paginateVars, geographyVars, areaVars, matchVars, filterVars,
          convertVars,
          batchVars,
          getVars,
          levelVars,
          withinVars,
          scorerVars,
          threadVars,
          multilayerVars,
          featuresVars>>

(***************************************************************************)
(* Bounds                                                                  *)
(***************************************************************************)
MaxFeatureCount == 4
MaxPageSize == 4
MaxWaves == 2
MaxValueLen == 2
MaxCalls == 2
MaxCells == 3
MaxOps == 3
MaxFeatures == 2
MaxLayerFeatures == 2
MaxRegionCells == 2

MaxResponses == 2
MaxPageFeatures == 3

MaxBatch == 3
MaxChunkSize == 2

MaxRetryLimit == 2
MaxAttempts == 3

MaxMatches == 2

MaxCandidates == 2
MaxWithinFeatures == 2

MaxNameTokens == 2

MaxThreads == 2

NoException == [type |-> "none", message |-> "none"]

(***************************************************************************)
(* Layer._paginate_through_features                                        *)
(***************************************************************************)

\* ceil(c / p), the page count the specification text names
Ceil(c, p) == (c + p - 1) \div p

PageCount_Ceil(c, p) == Ceil(c, p)

\* range(1 + (feature_count // result_record_count)): requests per wave
PageCount(c, p) == 1 + (c \div p)

\* result_record_count // 2
Halve(p) == p \div 2

MayRetry_OneMore(t) == t <= 3

\* `if tries <= 2` in the TIGERWebAPIError handler
MayRetry(t) == t <= 2

\* the for loop that fills params_list: n requests from offset, p apart
RECURSIVE BuildParamsList(_, _, _)
BuildParamsList(n, offset, p) ==
    IF n = 0 THEN <<>>
    ELSE <<[resultRecordCount |-> p, resultOffset |-> offset]>>
            \o BuildParamsList(n - 1, offset + p, p)

AnyNotExceeded_First(responses) ==
    responses[1].exceededTransferLimit = FALSE

\* any([r.json().get('exceededTransferLimit', False) == False for r in ...])
AnyNotExceeded(responses) ==
    \E i \in 1..Len(responses) : responses[i].exceededTransferLimit = FALSE

\* What the batched transport can answer to one wave: a response per request
\* (each flagged or not), or a TIGERWebAPIError from one of the requests.
ResponsesFor(reqs) ==
    { [i \in 1..Len(reqs) |->
          [resultOffset |-> reqs[i].resultOffset,
           resultRecordCount |-> reqs[i].resultRecordCount,
           exceededTransferLimit |-> f[i]]] : f \in [1..Len(reqs) -> BOOLEAN] }

PaginateStart ==
    /\ pc = "try"
    /\ feature_count \in 0..MaxFeatureCount
    /\ result_record_count \in 1..MaxPageSize
    /\ tries = 0
    /\ result_offset = 0
    /\ retrieved_all = FALSE
    /\ params_list = <<>>
    /\ all_feature_responses = <<>>
    /\ exception = NoException
    /\ wave = 0
    /\ attempt_sizes = <<>>
    /\ api_errors = 0
    /\ discarded = 0

FreshResponses_Kept(gathered) == gathered

\* line 391: `all_feature_responses = []`
FreshResponses(gathered) == <<>>

\* lines 388-393: the head of one pass of `while True`
StartAttempt ==
    /\ UNCHANGED <<geographyVars, areaVars, matchVars, filterVars, convertVars,
                   batchVars, getVars, levelVars, withinVars, scorerVars, threadVars, multilayerVars, featuresVars>>
    /\ pc = "try"
    /\ tries' = tries + 1
    /\ retrieved_all' = FALSE
    /\ all_feature_responses' = FreshResponses(all_feature_responses)
    /\ discarded' = discarded + Len(all_feature_responses)
    /\ result_offset' = 0
    /\ wave' = 0
    /\ attempt_sizes' = Append(attempt_sizes, result_record_count)
    /\ pc' = "build"
    /\ UNCHANGED <<feature_count, result_record_count, params_list, exception,
                   api_errors>>

\* lines 395-406: one pass of `while retrieved_all is False` up to the post;
\* a page size of 0 raises ZeroDivisionError, which no handler catches
BuildWave ==
    /\ UNCHANGED <<geographyVars, areaVars, matchVars, filterVars, convertVars,
                   batchVars, getVars, levelVars, withinVars, scorerVars, threadVars, multilayerVars, featuresVars>>
    /\ UNCHANGED discarded
    /\ pc = "build"
    /\ wave < MaxWaves
    /\ IF result_record_count = 0
         THEN /\ pc' = "raised"
              /\ exception' = [type |-> "ZeroDivisionError", message |-> "division"]
              /\ UNCHANGED <<params_list, result_offset, wave>>
         ELSE /\ params_list' = BuildParamsList(
                    PageCount(feature_count, result_record_count),
                    result_offset, result_record_count)
              /\ result_offset' = result_offset
                    + PageCount(feature_count, result_record_count) * result_record_count
              /\ wave' = wave + 1
              /\ pc' = "posted"
              /\ UNCHANGED exception
    /\ UNCHANGED <<feature_count, result_record_count, tries, retrieved_all,
                   all_feature_responses, attempt_sizes, api_errors>>

\* lines 408-414: the wave is answered and every response decodes
PostManyOk ==
    /\ UNCHANGED <<geographyVars, areaVars, matchVars, filterVars, convertVars,
                   batchVars, getVars, levelVars, withinVars, scorerVars, threadVars, multilayerVars, featuresVars>>
    /\ UNCHANGED discarded
    /\ pc = "posted"
    /\ \E rs \in ResponsesFor(params_list) :
          /\ all_feature_responses' = all_feature_responses \o rs
          /\ retrieved_all' = AnyNotExceeded(rs)
          /\ pc' = IF AnyNotExceeded(rs) THEN "returned" ELSE "build"
    /\ UNCHANGED <<feature_count, result_record_count, tries, result_offset,
                   params_list, exception, wave, attempt_sizes, api_errors>>

\* lines 415-419: a request of the wave raised TIGERWebAPIError
PostManyApiError ==
    /\ UNCHANGED <<geographyVars, areaVars, matchVars, filterVars, convertVars,
                   batchVars, getVars, levelVars, withinVars, scorerVars, threadVars, multilayerVars, featuresVars>>
    /\ UNCHANGED discarded
    /\ pc = "posted"
    /\ api_errors' = api_errors + 1
    /\ IF MayRetry(tries)
         THEN /\ result_record_count' = Halve(result_record_count)
              /\ pc' = "try"
              /\ UNCHANGED exception
         ELSE /\ pc' = "raised"
              /\ exception' = [type |-> "TIGERWebAPIError", message |-> "generating"]
              /\ UNCHANGED result_record_count
    /\ UNCHANGED <<feature_count, tries, result_offset, retrieved_all, params_list,
                   all_feature_responses, wave, attempt_sizes>>

DecodingError_OwnClass == [type |-> "JSONDecodeError", message |-> "decoding"]

\* line 421: `raise TIGERWebAPIError(None, 'There was a problem decoding ...')`
DecodingError == [type |-> "TIGERWebAPIError", message |-> "decoding"]

\* lines 411, 420-421: a response body does not decode
PostManyDecodeError ==
    /\ UNCHANGED <<geographyVars, areaVars, matchVars, filterVars, convertVars,
                   batchVars, getVars, levelVars, withinVars, scorerVars, threadVars, multilayerVars, featuresVars>>
    /\ UNCHANGED discarded
    /\ pc = "posted"
    /\ pc' = "raised"
    /\ exception' = DecodingError
    /\ UNCHANGED <<feature_count, result_record_count, tries, result_offset,
                   retrieved_all, params_list, all_feature_responses, wave,
                   attempt_sizes, api_errors>>

PaginateIdle ==
    /\ pc = "idle"
    /\ feature_count = 0
    /\ result_record_count = 1
    /\ tries = 0
    /\ result_offset = 0
    /\ retrieved_all = FALSE
    /\ params_list = <<>>
    /\ all_feature_responses = <<>>
    /\ exception = NoException
    /\ wave = 0
    /\ attempt_sizes = <<>>
    /\ api_errors = 0
    /\ discarded = 0

PaginateNext ==
    \/ StartAttempt
    \/ BuildWave
    \/ PostManyOk
    \/ PostManyApiError
    \/ PostManyDecodeError


(***************************************************************************)
(* Strings.  A Python str is a sequence of one-character strings, so that  *)
(* formatting, int(), str() and zfill() are computed, not assumed.         *)
(***************************************************************************)

Star == <<"*">>
Colon == ":"
DigitChars == <<"0", "1", "2", "3", "4", "5", "6", "7", "8", "9">>

\* the levels of the modelled hierarchy, outermost first
Levels == <<"state", "county", "tract">>
LevelSet == {Levels[i] : i \in 1..Len(Levels)}

Chars(level) ==
    CASE level = "state" -> <<"s", "t", "a", "t", "e">>
      [] level = "county" -> <<"c", "o", "u", "n", "t", "y">>
      [] level = "tract" -> <<"t", "r", "a", "c", "t">>

\* int(value) for a string of decimal digits
RECURSIVE IntOf(_)
IntOf(s) ==
    IF Len(s) = 0 THEN 0
    ELSE 10 * IntOf(SubSeq(s, 1, Len(s) - 1))
           + ((CHOOSE d \in 1..10 : DigitChars[d] = s[Len(s)]) - 1)

\* str(n) for n >= 0
RECURSIVE StrOf(_)
StrOf(n) ==
    IF n < 10 THEN <<DigitChars[n + 1]>>
    ELSE Append(StrOf(n \div 10), DigitChars[(n % 10) + 1])

\* s.zfill(w)
RECURSIVE Zfill(_, _)
Zfill(s, w) == IF Len(s) >= w THEN s ELSE Zfill(<<"0">> \o s, w)

\* f'{g}:{value}'
Format(g, value) == Append(Chars(g), Colon) \o value

\* list[::-1]
Reverse_Identity(seq) == seq

\* seq[::-1]
Reverse(seq) == [i \in 1..Len(seq) |-> seq[Len(seq) + 1 - i]]

(***************************************************************************)
(* censaurus/geography.py                                                  *)
(***************************************************************************)

PadValue_NoPadding(g, value) == value

\* pad_geography_filters, one entry: str(int(value)).zfill(width of g)
PadValue(g, value) ==
    IF value = Star THEN value
    ELSE CASE g = "state" -> Zfill(StrOf(IntOf(value)), 2)
           [] g = "county" -> Zfill(StrOf(IntOf(value)), 3)
           [] g = "tract" -> Zfill(StrOf(IntOf(value)), 6)
           [] g = "block group" -> StrOf(IntOf(value))
           [] g = "block" -> Zfill(StrOf(IntOf(value)), 4)
           [] g = "place" -> Zfill(StrOf(IntOf(value)), 5)
           [] OTHER -> value

\* pad_geography_filters: every entry is rewritten in the dict it was given
pad_geography_filters(filters) ==
    [g \in DOMAIN filters |-> PadValue(g, filters[g])]

IsWildcardEligible_Always(geo, g) == TRUE

\* `g in self.wildcard`
IsWildcardEligible(geo, g) == g \in geo.wildcard

WildcardConflict_Never(has_specified_geo) == FALSE

\* `if has_specified_geo is True` under `if value == '*'`
WildcardConflict(has_specified_geo) == has_specified_geo = TRUE

InvalidGeographyHierarchy(kind, g, others) ==
    [status |-> "raised", type |-> "InvalidGeographyHierarchy", kind |-> kind,
     level |-> g, others |-> others]

\* the loop over reverse_requires, from position i on
RECURSIVE Walk(_, _, _, _, _, _)
Walk(geo, filters, reverse_requires, i, has_specified_geo, in_list) ==
    IF i > Len(reverse_requires) THEN [status |-> "ok", in |-> in_list]
    ELSE
      LET g == reverse_requires[i] IN
      IF g \notin DOMAIN filters /\ ~IsWildcardEligible(geo, g)
        THEN InvalidGeographyHierarchy("must supplied", g, {})
        ELSE
          LET value == IF g \in DOMAIN filters THEN filters[g] ELSE Star IN
          IF value = Star
            THEN IF ~IsWildcardEligible(geo, g)
                   THEN InvalidGeographyHierarchy("cannot be a wildcard", g, {})
                 ELSE IF WildcardConflict(has_specified_geo)
                   THEN InvalidGeographyHierarchy("cannot use wildcard", g,
                          {reverse_requires[j] : j \in 1..(i - 1)} \cup {geo.name})
                 ELSE Walk(geo, filters, reverse_requires, i + 1,
                           has_specified_geo, Append(in_list, Format(g, value)))
            ELSE Walk(geo, filters, reverse_requires, i + 1,
                      TRUE, Append(in_list, Format(g, value)))

\* Geography._build_geography_params: the dict after the call and the outcome
_build_geography_params(geo, filters) ==
    LET padded == pad_geography_filters(filters)
        specified == geo.name \in DOMAIN padded /\ padded[geo.name] # Star
        for_list == <<Format(geo.name, IF specified THEN padded[geo.name] ELSE Star)>>
        after == IF specified
                   THEN [g \in (DOMAIN padded) \ {geo.name} |-> padded[g]]
                   ELSE padded
        walked == Walk(geo, after, Reverse(geo.requires), 1, specified, <<>>)
    IN [filters |-> after,
        result |-> IF walked.status = "ok"
                     THEN [status |-> "ok", for |-> for_list, in |-> walked.in]
                     ELSE walked]

\* the requires lists: the levels of a set, outermost first
OrderedSeq(S) == SelectSeq(Levels, LAMBDA l : l \in S)

Geographies ==
    UNION { UNION { { [name |-> n, requires |-> OrderedSeq(S), wildcard |-> W] :
                        W \in SUBSET S } :
                    S \in SUBSET (LevelSet \ {n}) } :
            n \in LevelSet }

ValueDigits == {"0", "6"}
Values == {Star} \cup UNION { [1..n -> ValueDigits] : n \in 1..MaxValueLen }
FilterMaps == UNION { [D -> Values] : D \in SUBSET LevelSet }

NoResult == [status |-> "none"]

GeographyStart ==
    /\ geography \in Geographies
    /\ geo_filters \in FilterMaps
    /\ geo_result = NoResult
    /\ geo_supplied = <<>>
    /\ geo_calls = 0

GeographyIdle ==
    /\ geography = [name |-> "state", requires |-> <<>>, wildcard |-> {}]
    /\ geo_filters = <<>>
    /\ geo_result = NoResult
    /\ geo_supplied = <<>>
    /\ geo_calls = 0

\* a caller calls geography._build_geography_params(geo_filters)
BuildGeographyParams ==
    /\ geo_calls < MaxCalls
    /\ geo_calls' = geo_calls + 1
    /\ geo_supplied' = geo_filters
    /\ geo_filters' = _build_geography_params(geography, geo_filters).filters
    /\ geo_result' = _build_geography_params(geography, geo_filters).result
    /\ UNCHANGED <<geography, paginateVars, areaVars, matchVars, filterVars,
                   convertVars, batchVars, getVars, levelVars, withinVars, scorerVars, threadVars, multilayerVars, featuresVars>>

GeographyNext == BuildGeographyParams



(***************************************************************************)
(* Area (censaurus/tiger.py).  A geometry is the set of unit cells it      *)
(* covers; an attribute that may be None is the empty set or a singleton.  *)
(***************************************************************************)

None == {}
Some(x) == {x}
Get(o) == CHOOSE x \in o : TRUE

Cells == 1..MaxCells

\* the cartographic boundary of the United States: all cells but the last
US_GEOMETRY == Cells \ {MaxCells}

\* shapely.intersection and geometry.difference
intersection(a, b) == a \cap b
difference(a, b) == a \ b

\* what the feature or the file holds for the area
FeatureProperties == {<<"GEOID", "06">>, <<"state", "06">>}

\* Area.__init__
NewArea ==
    [name |-> None, _attributes_are_set |-> FALSE, attributes |-> {},
     geometry |-> None]

AlreadySet_Never(flag) == FALSE

\* `if self._attributes_are_set is True: return`
AlreadySet(flag) == flag = TRUE

FlagAfterResolve_Forgotten == FALSE

\* `self._attributes_are_set = True`
FlagAfterResolve == TRUE

\* a state of the run: the Area, the national boundary and the ghost counters
AreaRun(a, us, log) == [area |-> a, us |-> us, log |-> log]

Raise(st) == [st EXCEPT !.log.raised = TRUE]

\* US_CARTOGRAPHIC._set_attributes() (built by from_url, clip_to_cb=False):
\* reads the boundary file, or raises when the read fails
ResolveUS(st, ok) ==
    IF ok THEN [st EXCEPT !.us = Some(US_GEOMETRY)] ELSE Raise(st)

\* Area.clip_to_cb once self.geometry is set (lines 210-212)
ClipBody(st, us_ok) ==
    LET r == IF st.us = None THEN ResolveUS(st, us_ok) ELSE st IN
    IF r.log.raised THEN r
    ELSE [r EXCEPT !.area.geometry =
              Some(intersection(Get(st.area.geometry), Get(r.us)))]

\* the _set_attributes bound by from_tiger_geo_id / _from_file_or_url:
\* fetch_ok and us_ok say whether the reads succeed
_set_attributes(st, args, fetch_ok, us_ok) ==
    IF AlreadySet(st.area._attributes_are_set) THEN st
    ELSE
      LET fetched == [st EXCEPT
                        !.log.fetches = @ + 1,
                        !.log.late_fetches =
                            @ + (IF st.area._attributes_are_set THEN 1 ELSE 0)]
      IN
      IF ~fetch_ok THEN Raise(fetched)
      ELSE
        LET assigned ==
              IF args.source = "tiger_geo_id"
                THEN [fetched EXCEPT !.area.name = Some("NAME"),
                                     !.area.attributes = FeatureProperties,
                                     !.area.geometry = Some(args.feature)]
                ELSE [fetched EXCEPT !.area.name = Some("name"),
                                     !.area.geometry = Some(args.feature)]
            clipped == IF args.clip_to_cb THEN ClipBody(assigned, us_ok)
                       ELSE assigned
        IN
        IF clipped.log.raised THEN clipped
        ELSE [clipped EXCEPT
                !.area.attributes = FeatureProperties,
                !.area._attributes_are_set = FlagAfterResolve \/ @,
                !.log.resolutions = @ + 1]

\* Area.__repr__ and Area.plot: resolve first when the flag is False
repr_or_plot(st, args, fetch_ok, us_ok) ==
    IF st.area._attributes_are_set = FALSE
      THEN _set_attributes(st, args, fetch_ok, us_ok)
      ELSE st

\* Area.clip_to_cb
clip_to_cb(st, args, fetch_ok, us_ok) ==
    LET r == IF st.area.geometry = None
               THEN _set_attributes(st, args, fetch_ok, us_ok)
               ELSE st
    IN IF r.log.raised THEN r ELSE ClipBody(r, us_ok)

\* Area.remove_water: water is what _water_within_geometry returns (None, or
\* the union of the water bodies found); an unresolved geometry raises
remove_water(st, water) ==
    IF st.area.geometry = None THEN Raise(st)
    ELSE IF water = None THEN st
    ELSE [st EXCEPT !.area.geometry =
              Some(difference(Get(st.area.geometry), Get(water)))]

Waters == {None} \cup {Some(w) : w \in (SUBSET Cells) \ {{}}}

NewLog == [fetches |-> 0, late_fetches |-> 0, resolutions |-> 0, late_calls |-> 0,
           ops |-> 0, last_op |-> "none", raised |-> FALSE]

AreaStart ==
    /\ area_args \in [source : {"tiger_geo_id", "file", "url"},
                      clip_to_cb : BOOLEAN,
                      feature : (SUBSET Cells) \ {{}}]
    /\ area = NewArea
    /\ US_CARTOGRAPHIC = None
    /\ area_log = NewLog

AreaIdle ==
    /\ area_args = [source |-> "tiger_geo_id", clip_to_cb |-> FALSE, feature |-> {1}]
    /\ area = NewArea
    /\ US_CARTOGRAPHIC = None
    /\ area_log = NewLog

\* the run before operation op starts
Before(op) ==
    AreaRun(area, US_CARTOGRAPHIC,
            [area_log EXCEPT !.ops = @ + 1, !.last_op = op, !.raised = FALSE,
                             !.late_calls =
                                 @ + (IF area._attributes_are_set THEN 1 ELSE 0)])

Becomes(st) ==
    /\ area' = st.area
    /\ US_CARTOGRAPHIC' = st.us
    /\ area_log' = st.log
    /\ UNCHANGED <<area_args, paginateVars, geographyVars, matchVars, filterVars,
                   convertVars, batchVars, getVars, levelVars, withinVars, scorerVars, threadVars, multilayerVars, featuresVars>>

SetAttributes ==
    /\ area_log.ops < MaxOps
    /\ \E fetch_ok \in BOOLEAN, us_ok \in BOOLEAN :
          Becomes(_set_attributes(Before("_set_attributes"), area_args, fetch_ok, us_ok))

Repr ==
    /\ area_log.ops < MaxOps
    /\ \E fetch_ok \in BOOLEAN, us_ok \in BOOLEAN :
          Becomes(repr_or_plot(Before("__repr__"), area_args, fetch_ok, us_ok))

Plot ==
    /\ area_log.ops < MaxOps
    /\ \E fetch_ok \in BOOLEAN, us_ok \in BOOLEAN :
          Becomes(repr_or_plot(Before("plot"), area_args, fetch_ok, us_ok))

ClipToCb ==
    /\ area_log.ops < MaxOps
    /\ \E fetch_ok \in BOOLEAN, us_ok \in BOOLEAN :
          Becomes(clip_to_cb(Before("clip_to_cb"), area_args, fetch_ok, us_ok))

RemoveWater ==
    /\ area_log.ops < MaxOps
    /\ \E water \in Waters :
          Becomes(remove_water(Before("remove_water"), water))

AreaNext ==
    \/ SetAttributes
    \/ Repr
    \/ Plot
    \/ ClipToCb
    \/ RemoveWater

(***************************************************************************)
(* Layer.get_area_by_name (tiger.py 582-663)                               *)
(*                                                                         *)
(* A token is a word with its capitalisation; a detailed name and a query  *)
(* are token sets.  custom_scorer is kept as a table from names to scores  *)
(* in thousandths: any table is allowed, so equal names score equally and  *)
(* nothing else is assumed about the scorer.                               *)
(***************************************************************************)
Token(word, capitalised) == [word |-> word, capitalised |-> capitalised]

\* str.lower on a token
lower(t) == [t EXCEPT !.capitalised = FALSE]

\* detailed names a layer may hold and queries a caller may type
DetailedNames ==
    { {Token("franklin", TRUE), Token("township", FALSE)},
      {Token("franklin", TRUE), Token("city", FALSE)},
      {Token("franklin", TRUE)} }

Queries ==
    { {Token("franklin", TRUE)},
      {Token("franklin", FALSE)},
      {Token("franklin", TRUE), Token("township", FALSE)} }

\* scores the scorer may give, in thousandths
ScoreSet == {790, 800, 910, 950, 960, 990}
RescoreSet == {790, 950, 960, 980}

\* limit=20 of both extractBests calls
Limit == 20

\* score_cutoff=0.8 of both extractBests calls
AtLeastCutoff(score) == score >= 800

\* geoid_name_dict: GEOID -> detailed name, in the features' order
geoid_name_dict(fs) == [i \in 1..Len(fs) |-> [GEOID |-> i, name |-> fs[i]]]

\* position of entry e in a list kept best first: after every entry that
\* scores at least as much (ties keep the order of the choices)
RECURSIVE InsertBest(_, _)
InsertBest(sorted, e) ==
    IF sorted = << >> THEN <<e>>
    ELSE IF Head(sorted)[2] >= e[2] THEN <<Head(sorted)>> \o InsertBest(Tail(sorted), e)
    ELSE <<e>> \o sorted

RECURSIVE SortBest(_, _)
SortBest(sorted, rest) ==
    IF rest = << >> THEN sorted
    ELSE SortBest(InsertBest(sorted, Head(rest)), Tail(rest))

\* thefuzz process.extractBests(query, choices, scorer, limit, score_cutoff):
\* (choice, score, key) of every choice scoring at least the cutoff, best
\* first, at most limit of them
extractBests(scorer, choices) ==
    LET scored == [i \in 1..Len(choices) |->
                      <<choices[i].name, scorer[choices[i].name], choices[i].GEOID>>]
        kept == SelectSeq(scored, LAMBDA e : AtLeastCutoff(e[2]))
        sorted == SortBest(<< >>, kept)
    IN SubSeq(sorted, 1, IF Len(sorted) < Limit THEN Len(sorted) ELSE Limit)

\* `best_matches[0][1] >= 0.99`
AcceptTop_Strict(top) == top > 990

AcceptTop(top) == top >= 990

\* `best_matches[0][1] > 0.95 and best_matches[0][1] - best_matches[1][1] > 0.05`
AcceptOnMargin(top, second) == top > 950 /\ top - second > 50

\* the if / elif / elif / else of lines 615-637
DirectDecision(bm) ==
    IF Len(bm) = 0 THEN "no_match"
    ELSE IF Len(bm) = 1 \/ AcceptTop(bm[1][2]) THEN "accept"
    ELSE IF AcceptOnMargin(bm[1][2], bm[2][2]) THEN "accept"
    ELSE "refine"

\* line 640: tokens of the shortlisted names that the query lacks, lowercased
MissingTokens(bm, query) ==
    { lower(t) : t \in (UNION { bm[i][1] : i \in 1..Len(bm) }) \ query }

\* best_match_geoid_name_dict (line 639)
best_match_geoid_name_dict(bm) ==
    [i \in 1..Len(bm) |-> [GEOID |-> bm[i][3], name |-> bm[i][1]]]

\* line 649
Confident(nbm) ==
    \/ Len(nbm) = 1 /\ nbm[1][2] > 950
    \/ Len(nbm) > 0 /\ nbm[1][2] >= 980

NoGeoid == 0

Pending == [status |-> "pending", GEOID |-> NoGeoid, step |-> "none"]

Outcome(status, g, step) == [status |-> status, GEOID |-> g, step |-> step]

NamesOf(fs) == { fs[i] : i \in 1..Len(fs) }

MatchStart ==
    /\ match_pc = "start"
    /\ \E n \in 0..MaxFeatures : features \in [1..n -> DetailedNames]
    /\ parsed_name_token_set \in Queries
    /\ custom_scorer = << >>
    /\ best_matches = << >>
    /\ all_missing_tokens = {}
    /\ new_matches_found = 0
    /\ geoid = NoGeoid
    /\ match_result = Pending
    /\ confident_shortlists = << >>

MatchIdle ==
    /\ match_pc = "idle"
    /\ features = << >>
    /\ parsed_name_token_set = {}
    /\ custom_scorer = << >>
    /\ best_matches = << >>
    /\ all_missing_tokens = {}
    /\ new_matches_found = 0
    /\ geoid = NoGeoid
    /\ match_result = Pending
    /\ confident_shortlists = << >>

\* lines 597-640: score every feature, shortlist, decide directly or set up
\* the refinement loop
ScoreAndDecide ==
    /\ match_pc = "start"
    /\ \E scorer \in [NamesOf(features) -> ScoreSet] :
         LET bm == extractBests(scorer, geoid_name_dict(features))
             decision == DirectDecision(bm)
         IN /\ custom_scorer' = scorer
            /\ best_matches' = bm
            /\ CASE decision = "no_match" ->
                      /\ match_pc' = "done"
                      /\ match_result' = Outcome("no_match", NoGeoid, "direct")
                      /\ UNCHANGED <<geoid, all_missing_tokens>>
                 [] decision = "accept" ->
                      /\ match_pc' = "done"
                      /\ geoid' = bm[1][3]
                      /\ match_result' = Outcome("returned", bm[1][3], "direct")
                      /\ UNCHANGED all_missing_tokens
                 [] OTHER ->
                      /\ match_pc' = "refine"
                      /\ all_missing_tokens' = MissingTokens(bm, parsed_name_token_set)
                      /\ UNCHANGED <<geoid, match_result>>
    /\ UNCHANGED <<features, parsed_name_token_set, new_matches_found,
                   confident_shortlists>>
    /\ UNCHANGED <<paginateVars, geographyVars, areaVars, filterVars, convertVars,
                   batchVars, getVars, levelVars, withinVars, scorerVars, threadVars, multilayerVars, featuresVars>>

\* the scorer on the query with one token added: the table already drawn when
\* the query is unchanged by the addition, any table otherwise
Rescorers(token, bm) ==
    IF parsed_name_token_set \cup {token} = parsed_name_token_set
      THEN { [n \in { bm[i][1] : i \in 1..Len(bm) } |-> custom_scorer[n]] }
      ELSE [{ bm[i][1] : i \in 1..Len(bm) } -> RescoreSet]

\* one iteration of `for token in all_missing_tokens` (lines 643-652)
RefineToken ==
    /\ match_pc = "refine"
    /\ all_missing_tokens # {}
    /\ \E token \in all_missing_tokens :
         \E scorer \in Rescorers(token, best_matches) :
           LET new_best_matches ==
                   extractBests(scorer, best_match_geoid_name_dict(best_matches))
           IN /\ all_missing_tokens' = all_missing_tokens \ {token}
              /\ IF Confident(new_best_matches)
                   THEN /\ geoid' = new_best_matches[1][3]
                        /\ new_matches_found' = new_matches_found + 1
                        /\ confident_shortlists' =
                               Append(confident_shortlists, new_best_matches)
                   ELSE UNCHANGED <<geoid, new_matches_found, confident_shortlists>>
    /\ UNCHANGED <<match_pc, features, parsed_name_token_set, custom_scorer,
                   best_matches, match_result>>
    /\ UNCHANGED <<paginateVars, geographyVars, areaVars, filterVars, convertVars,
                   batchVars, getVars, levelVars, withinVars, scorerVars, threadVars, multilayerVars, featuresVars>>

\* lines 654-663: after the loop
RefineEnd ==
    /\ match_pc = "refine"
    /\ all_missing_tokens = {}
    /\ match_pc' = "done"
    /\ match_result' = IF new_matches_found = 1
                         THEN Outcome("returned", geoid, "refine")
                         ELSE Outcome("ambiguous", NoGeoid, "refine")
    /\ UNCHANGED <<features, parsed_name_token_set, custom_scorer, best_matches,
                   all_missing_tokens, new_matches_found, geoid,
                   confident_shortlists>>
    /\ UNCHANGED <<paginateVars, geographyVars, areaVars, filterVars, convertVars,
                   batchVars, getVars, levelVars, withinVars, scorerVars, threadVars, multilayerVars, featuresVars>>

MatchNext ==
    \/ ScoreAndDecide
    \/ RefineToken
    \/ RefineEnd

(***************************************************************************)
(* Layer._get_feature_geometry (tiger.py 458-507)                          *)
(*                                                                         *)
(* A geometry is the set of unit cells it covers; its area is the number   *)
(* of cells.  A threshold is a fraction num/den.                           *)
(***************************************************************************)
RegionCells == 1..MaxRegionCells

FeatureGeometries == (SUBSET RegionCells) \ {{}}

Thresholds == { [num |-> 0, den |-> 1], [num |-> 1, den |-> 2], [num |-> 1, den |-> 1] }

\* truth value of an optional argument: None, an empty geometry and an empty
\* list are false
Truthy(o) == o # None /\ Get(o) # {}

\* `intersections.area/gdf.area > area_threshold`
MeetsThreshold_Exclusive(inter, feature, thr) ==
    Cardinality(inter) * thr.den > thr.num * Cardinality(feature)

\* `intersections.area/gdf.area >= area_threshold`
MeetsThreshold(inter, feature, thr) ==
    Cardinality(inter) * thr.den >= thr.num * Cardinality(feature)

\* what the service answers to the query built in lines 459-476: the features
\* named by objectIds when object_ids is given, else the features that
\* intersect the region when one is given, else every feature
QueryFeatures(layer, within, ids) ==
    IF Truthy(ids)
      THEN { f \in layer : f.OBJECTID \in Get(ids) }
    ELSE IF Truthy(within)
      THEN { f \in layer : intersection(f.geometry, Get(within)) # {} }
    ELSE layer

\* lines 495-502
FilterByArea(fetched, within, thr) ==
    IF fetched # {} /\ Truthy(within) /\ thr # None
      THEN { [OBJECTID |-> f.OBJECTID,
              geometry |-> intersection(f.geometry, Get(within))] :
                f \in { c \in fetched :
                          MeetsThreshold(intersection(c.geometry, Get(within)),
                                         c.geometry, Get(thr)) } }
      ELSE fetched

LayersOf(n) ==
    { { [OBJECTID |-> i, geometry |-> g[i]] : i \in 1..n } :
          g \in [1..n -> FeatureGeometries] }

FilterStart ==
    /\ fg_pc = "start"
    /\ \E n \in 0..MaxLayerFeatures :
          /\ layer_features \in LayersOf(n)
          /\ object_ids \in {None} \cup { Some(ids) : ids \in SUBSET (1..n) }
    /\ within_geometry \in {None} \cup { Some(g) : g \in SUBSET RegionCells }
    /\ area_threshold \in {None} \cup { Some(t) : t \in Thresholds }
    /\ fetched_gdf = {}
    /\ gdf = {}

FilterIdle ==
    /\ fg_pc = "idle"
    /\ layer_features = {}
    /\ object_ids = None
    /\ within_geometry = None
    /\ area_threshold = None
    /\ fetched_gdf = {}
    /\ gdf = {}

\* the whole call, when the paginated fetch succeeds
GetFeatureGeometry ==
    /\ fg_pc = "start"
    /\ fg_pc' = "done"
    /\ fetched_gdf' = QueryFeatures(layer_features, within_geometry, object_ids)
    /\ gdf' = FilterByArea(fetched_gdf', within_geometry, area_threshold)
    /\ UNCHANGED <<layer_features, within_geometry, area_threshold, object_ids>>
    /\ UNCHANGED <<paginateVars, geographyVars, areaVars, matchVars, convertVars,
                   batchVars, getVars, levelVars, withinVars, scorerVars, threadVars, multilayerVars, featuresVars>>

\* the whole call, when _paginate_through_features raises
GetFeatureGeometryFails ==
    /\ fg_pc = "start"
    /\ fg_pc' = "raised"
    /\ UNCHANGED <<layer_features, within_geometry, area_threshold, object_ids,
                   fetched_gdf, gdf>>
    /\ UNCHANGED <<paginateVars, geographyVars, areaVars, matchVars, convertVars,
                   batchVars, getVars, levelVars, withinVars, scorerVars, threadVars, multilayerVars, featuresVars>>

FilterNext ==
    \/ GetFeatureGeometry
    \/ GetFeatureGeometryFails

(***************************************************************************)
(* Layer._convert_feature_responses_to_gdf (tiger.py 423-433)              *)
(*                                                                         *)
(* A response is the sequence of the identifiers of its features; the gdf  *)
(* is the sequence of the identifiers of its rows.                         *)
(***************************************************************************)
FeatureIds == 1..MaxPageFeatures

SeqsUpTo(S, n) == UNION { [1..k -> S] : k \in 0..n }

\* what one page response can carry: features of the layer, none of them twice
PageFeatures ==
    { page \in SeqsUpTo(FeatureIds, MaxPageFeatures) :
          \A i, j \in 1..Len(page) : page[i] = page[j] => i = j }

\* pandas.concat of the per-response frames: the rows of every frame, in order
RECURSIVE concat(_)
concat(gdfs) ==
    IF gdfs = << >> THEN << >> ELSE Head(gdfs) \o concat(Tail(gdfs))

\* lines 424-433: one frame per response, concatenated
_convert_feature_responses_to_gdf(responses) ==
    concat([i \in 1..Len(responses) |-> responses[i]])

\* _paginate_through_features returns at least one response (every wave has
\* at least one request)
ConvertStart ==
    /\ convert_pc = "start"
    /\ \E n \in 1..MaxResponses : feature_responses \in [1..n -> PageFeatures]
    /\ converted_gdf = << >>

ConvertIdle ==
    /\ convert_pc = "idle"
    /\ feature_responses = << >>
    /\ converted_gdf = << >>

ConvertFeatureResponses ==
    /\ convert_pc = "start"
    /\ convert_pc' = "done"
    /\ converted_gdf' = _convert_feature_responses_to_gdf(feature_responses)
    /\ UNCHANGED feature_responses
    /\ UNCHANGED <<paginateVars, geographyVars, areaVars, matchVars, filterVars,
                   batchVars, getVars, levelVars, withinVars, scorerVars, threadVars, multilayerVars, featuresVars>>

ConvertNext == ConvertFeatureResponses

(***************************************************************************)
(* CensusClient.get_many / TIGERClient.get_many (api.py 140-160, 254-274)  *)
(*                                                                         *)
(* Both clients run the same code; self.chunk_size is 50 for the Census    *)
(* client and 100 for the TIGER client, and is drawn here from a small     *)
(* range.  A task is "scheduled" once create_task has been called, is      *)
(* "in_flight" from the moment the event loop starts its coroutine until   *)
(* self.get ends, and is then "done" or "failed".                          *)
(***************************************************************************)
\* chunks = [tasks[i:i + chunk_size] for i in range(0, len(tasks), chunk_size)]
ChunkOf(i, size) == (i - 1) \div size

ChunkMembers(k, size, n) == { i \in 1..n : ChunkOf(i, size) = k }

ChunkCount(size, n) == (n + size - 1) \div size

RECURSIVE Ascending(_)
Ascending(S) ==
    IF S = {} THEN << >>
    ELSE LET m == CHOOSE x \in S : \A y \in S : x <= y
         IN <<m>> \o Ascending(S \ {m})

BatchStart ==
    /\ batch_pc = "create"
    /\ chunk_size \in 1..MaxChunkSize
    /\ \E n \in 0..MaxBatch : tasks = [i \in 1..n |-> "new"]
    /\ chunk = 0
    /\ batch_responses = << >>

BatchIdle ==
    /\ batch_pc = "idle"
    /\ chunk_size = 1
    /\ tasks = << >>
    /\ chunk = 0
    /\ batch_responses = << >>

\* lines 150-155: a task is created for every request of the batch, then the
\* chunks are cut; with no request the call returns the empty list
CreateTasks ==
    /\ batch_pc = "create"
    /\ tasks' = [i \in 1..Len(tasks) |-> "scheduled"]
    /\ batch_pc' = IF Len(tasks) = 0 THEN "returned" ELSE "gather"
    /\ UNCHANGED <<chunk_size, chunk, batch_responses>>
    /\ UNCHANGED <<paginateVars, geographyVars, areaVars, matchVars, filterVars,
                   convertVars, getVars, levelVars, withinVars, scorerVars, threadVars, multilayerVars, featuresVars>>

\* the event loop starts the scheduled tasks, in the order of their creation,
\* as soon as get_many is suspended in `await gather(*chunk)`: a task runs
\* self.get up to its request
TaskStart(i) ==
    /\ batch_pc \in {"gather", "returned", "raised"}
    /\ tasks[i] = "scheduled"
    /\ \A j \in 1..(i - 1) : tasks[j] # "scheduled"
    /\ tasks' = [tasks EXCEPT ![i] = "in_flight"]
    /\ UNCHANGED <<batch_pc, chunk_size, chunk, batch_responses>>
    /\ UNCHANGED <<paginateVars, geographyVars, areaVars, matchVars, filterVars,
                   convertVars, getVars, levelVars, withinVars, scorerVars, threadVars, multilayerVars, featuresVars>>

\* self.get of task i returns a response
TaskComplete(i) ==
    /\ tasks[i] = "in_flight"
    /\ tasks' = [tasks EXCEPT ![i] = "done"]
    /\ UNCHANGED <<batch_pc, chunk_size, chunk, batch_responses>>
    /\ UNCHANGED <<paginateVars, geographyVars, areaVars, matchVars, filterVars,
                   convertVars, getVars, levelVars, withinVars, scorerVars, threadVars, multilayerVars, featuresVars>>

\* self.get of task i raises
TaskRaise(i) ==
    /\ tasks[i] = "in_flight"
    /\ tasks' = [tasks EXCEPT ![i] = "failed"]
    /\ UNCHANGED <<batch_pc, chunk_size, chunk, batch_responses>>
    /\ UNCHANGED <<paginateVars, geographyVars, areaVars, matchVars, filterVars,
                   convertVars, getVars, levelVars, withinVars, scorerVars, threadVars, multilayerVars, featuresVars>>

\* lines 156-160: `await gather(*chunk)` returns once every task of the chunk
\* is done; its batch_responses are appended and the next chunk is awaited, or the
\* call returns
GatherChunk ==
    /\ batch_pc = "gather"
    /\ \A i \in ChunkMembers(chunk, chunk_size, Len(tasks)) : tasks[i] = "done"
    /\ batch_responses' = batch_responses \o Ascending(ChunkMembers(chunk, chunk_size, Len(tasks)))
    /\ chunk' = chunk + 1
    /\ batch_pc' = IF chunk + 1 = ChunkCount(chunk_size, Len(tasks))
                     THEN "returned" ELSE "gather"
    /\ UNCHANGED <<chunk_size, tasks>>
    /\ UNCHANGED <<paginateVars, geographyVars, areaVars, matchVars, filterVars,
                   convertVars, getVars, levelVars, withinVars, scorerVars, threadVars, multilayerVars, featuresVars>>

\* `await gather(*chunk)` raises as soon as a task of the chunk has raised
GatherRaises ==
    /\ batch_pc = "gather"
    /\ \E i \in ChunkMembers(chunk, chunk_size, Len(tasks)) : tasks[i] = "failed"
    /\ batch_pc' = "raised"
    /\ UNCHANGED <<chunk_size, tasks, chunk, batch_responses>>
    /\ UNCHANGED <<paginateVars, geographyVars, areaVars, matchVars, filterVars,
                   convertVars, getVars, levelVars, withinVars, scorerVars, threadVars, multilayerVars, featuresVars>>

BatchNext ==
    \/ CreateTasks
    \/ \E i \in 1..Len(tasks) : TaskStart(i)
    \/ \E i \in 1..Len(tasks) : TaskComplete(i)
    \/ \E i \in 1..Len(tasks) : TaskRaise(i)
    \/ GatherChunk
    \/ GatherRaises

(***************************************************************************)
(* CensusClient.get (api.py 105-138) and TIGERClient.get (api.py 215-252)  *)
(***************************************************************************)
\* the local `response`: not assigned yet, None, or a response
Unbound == [kind |-> "unbound"]
NoResponse == [kind |-> "None"]

\* what one `await super().get(...)` can do: raise one of the four httpx
\* errors the code catches, raise another httpx error, or answer
CaughtError == [kind |-> "caught_error"]
OtherError == [kind |-> "other_error"]

Answers ==
    [kind : {"response"}, status_code : {200, 204, 404, 500},
     text : {"ok", "The requested URL was rejected", "Invalid URL",
             "Error performing query operation"}]

AttemptOutcomes(c) ==
    {CaughtError, OtherError}
      \cup (IF c = "census" THEN { a \in Answers : a.text = "ok" } ELSE Answers)

Returned(r) == [kind |-> "returned", type |-> "Response", status_code |-> Some(r.status_code)]

Raises(type, status) == [kind |-> "raised", type |-> type, status_code |-> status]

Running == [kind |-> "running", type |-> "none", status_code |-> None]

\* `self.retry_limit is None or retry_count < self.retry_limit`
LoopCondition(limit, count) == IF limit = None THEN TRUE ELSE count < Get(limit)

\* the status codes CensusClient.get returns a response for (line 132)
CensusSuccess(status) == status = 200 \/ status = 204

GetStart ==
    /\ get_pc = "entry"
    /\ client \in {"census", "tiger"}
    /\ api_key \in IF client = "census" THEN {None, Some("key")} ELSE {None}
    /\ retry_limit \in {None} \cup { Some(n) : n \in 0..MaxRetryLimit }
    /\ retry_count = 0
    /\ response = Unbound
    /\ get_result = Running

GetIdle ==
    /\ get_pc = "idle"
    /\ client = "census"
    /\ api_key = None
    /\ retry_limit = None
    /\ retry_count = 0
    /\ response = Unbound
    /\ get_result = Running

\* lines 116-120 / 229-230: with an API key the Census client runs
\* params.update({'key', self.api_key}), a set where a dict is meant, and
\* dict.update raises ValueError on its elements
GetEnter ==
    /\ get_pc = "entry"
    /\ IF client = "census" /\ api_key # None
         THEN /\ get_pc' = "done"
              /\ get_result' = Raises("ValueError", None)
         ELSE /\ get_pc' = "loop"
              /\ UNCHANGED get_result
    /\ UNCHANGED <<client, api_key, retry_limit, retry_count, response>>
    /\ UNCHANGED <<paginateVars, geographyVars, areaVars, matchVars, filterVars,
                   convertVars, batchVars, levelVars, withinVars, scorerVars, threadVars, multilayerVars, featuresVars>>

\* one pass of the while loop of CensusClient.get (lines 121-136)
CensusPass(outcome) ==
    IF outcome = OtherError
      THEN [pc |-> "done", response |-> response, result |-> Raises("httpx error", None)]
    ELSE IF outcome = CaughtError
      THEN [pc |-> "loop", response |-> NoResponse, result |-> Running]
    ELSE IF CensusSuccess(outcome.status_code)
      THEN [pc |-> "done", response |-> outcome, result |-> Returned(outcome)]
    ELSE IF outcome.status_code = 404
      THEN [pc |-> "after", response |-> outcome, result |-> Running]
    ELSE [pc |-> "loop", response |-> outcome, result |-> Running]

\* one pass of the while loop of TIGERClient.get (lines 231-250)
TigerPass(outcome) ==
    IF outcome = OtherError
      THEN [pc |-> "done", response |-> response, result |-> Raises("httpx error", None)]
    ELSE IF outcome = CaughtError
      THEN [pc |-> "loop", response |-> NoResponse, result |-> Running]
    ELSE IF outcome.text = "The requested URL was rejected"
      THEN [pc |-> "done", response |-> outcome,
            result |-> Raises("TIGERWebAPIError", Some(200))]
    ELSE IF outcome.text = "Invalid URL"
      THEN [pc |-> "done", response |-> outcome,
            result |-> Raises("TIGERWebAPIError", Some(400))]
    ELSE IF outcome.text = "Error performing query operation"
      THEN [pc |-> "done", response |-> outcome,
            result |-> Raises("TIGERWebAPIError", Some(500))]
    ELSE IF outcome.status_code = 200
      THEN [pc |-> "done", response |-> outcome, result |-> Returned(outcome)]
    ELSE [pc |-> "loop", response |-> outcome, result |-> Running]

GetAttempt ==
    /\ get_pc = "loop"
    /\ LoopCondition(retry_limit, retry_count)
    /\ retry_count < MaxAttempts
    /\ retry_count' = retry_count + 1
    /\ \E outcome \in AttemptOutcomes(client) :
         LET pass == IF client = "census" THEN CensusPass(outcome)
                     ELSE TigerPass(outcome)
         IN /\ get_pc' = pass.pc
            /\ response' = pass.response
            /\ get_result' = pass.result
    /\ UNCHANGED <<client, api_key, retry_limit>>
    /\ UNCHANGED <<paginateVars, geographyVars, areaVars, matchVars, filterVars,
                   convertVars, batchVars, levelVars, withinVars, scorerVars, threadVars, multilayerVars, featuresVars>>

\* the raise after the loop (line 138 / line 252)
RaiseAfterLoop ==
    IF client = "tiger" THEN Raises("TIGERWebAPIError", None)
    ELSE IF response = Unbound THEN Raises("UnboundLocalError", None)
    ELSE IF response = NoResponse THEN Raises("AttributeError", None)
    ELSE Raises("CensusAPIError", Some(response.status_code))

\* the loop is left by its condition or by `break`
GetLeaveLoop ==
    /\ \/ get_pc = "loop" /\ ~LoopCondition(retry_limit, retry_count)
       \/ get_pc = "after"
    /\ get_pc' = "done"
    /\ get_result' = RaiseAfterLoop
    /\ UNCHANGED <<client, api_key, retry_limit, retry_count, response>>
    /\ UNCHANGED <<paginateVars, geographyVars, areaVars, matchVars, filterVars,
                   convertVars, batchVars, levelVars, withinVars, scorerVars, threadVars, multilayerVars, featuresVars>>

GetNext ==
    \/ GetEnter
    \/ GetAttempt
    \/ GetLeaveLoop

(***************************************************************************)
(* GeographyCollection._build_geography_params_from_level                  *)
(* (geography.py 312-335), with GeographyCollection.get (211-241)          *)
(***************************************************************************)
\* the geographies of one name a collection may hold
GeographiesNamed(n) == { g \in Geographies : g.name = n }

\* filter values of the callers modelled here
LevelValues == {Star, <<"6">>}
LevelFilterMaps == UNION { [D -> LevelValues] : D \in SUBSET LevelSet }

\* the loop of lines 319-323 from candidate i on: the same dict goes to every
\* candidate, as the previous one left it
RECURSIVE TryMatches(_, _, _, _)
TryMatches(matches, i, filters, exceptions) ==
    IF i > Len(matches)
      THEN [filters |-> filters, returned |-> FALSE, exceptions |-> exceptions]
      ELSE LET built == _build_geography_params(matches[i], filters) IN
           IF built.result.status = "ok"
             THEN [filters |-> built.filters, returned |-> TRUE,
                   geography |-> matches[i], params |-> built.result,
                   exceptions |-> exceptions]
             ELSE TryMatches(matches, i + 1, built.filters,
                             Append(exceptions, built.result))

LevelReturned(g, params) ==
    [status |-> "returned", geography |-> g, params |-> params]

LevelRaised(type, errors) ==
    [status |-> "raised", type |-> type, errors |-> errors]

\* lines 325-335: what is raised when no candidate returned
RaiseForMatches(matches, exceptions) ==
    IF Len(matches) = 1
      THEN LevelRaised("InvalidGeographyHierarchy", <<exceptions[1]>>)
      ELSE LevelRaised("InvalidGeographyHierarchy",
                       [i \in 1..Len(matches) |-> exceptions[i]])

\* the whole call: [filters, result]
_build_geography_params_from_level(mode, found, filters) ==
    IF Len(found) = 0
      THEN [filters |-> filters, result |-> LevelRaised("UnknownGeography", << >>)]
    ELSE IF mode = "level"
      THEN LET built == _build_geography_params(found[1], filters) IN
           [filters |-> built.filters,
            result |-> IF built.result.status = "ok"
                         THEN LevelReturned(found[1], built.result)
                         ELSE LevelRaised("InvalidGeographyHierarchy",
                                          <<built.result>>)]
    ELSE IF Len(found) = 1
      \* self.get(name=...) returns the Geography itself, which `for match in
      \* matches` cannot iterate
      THEN [filters |-> filters, result |-> LevelRaised("TypeError", << >>)]
    ELSE LET tried == TryMatches(found, 1, filters, << >>) IN
         [filters |-> tried.filters,
          result |-> IF tried.returned
                       THEN LevelReturned(tried.geography, tried.params)
                       ELSE RaiseForMatches(found, tried.exceptions)]

LevelStart ==
    /\ level_pc = "start"
    /\ level_mode \in {"level", "name"}
    /\ \E n \in 0..MaxMatches :
          level_geographies \in [1..n -> GeographiesNamed("tract")]
    /\ level_filters \in LevelFilterMaps
    /\ level_supplied = level_filters
    /\ level_result = NoResult

LevelIdle ==
    /\ level_pc = "idle"
    /\ level_mode = "level"
    /\ level_geographies = << >>
    /\ level_filters = << >>
    /\ level_supplied = << >>
    /\ level_result = NoResult

BuildGeographyParamsFromLevel ==
    /\ level_pc = "start"
    /\ level_pc' = "done"
    /\ level_filters' = _build_geography_params_from_level(
                            level_mode, level_geographies, level_filters).filters
    /\ level_result' = _build_geography_params_from_level(
                            level_mode, level_geographies, level_filters).result
    /\ UNCHANGED <<level_mode, level_geographies, level_supplied>>
    /\ UNCHANGED <<paginateVars, geographyVars, areaVars, matchVars, filterVars,
                   convertVars, batchVars, getVars, withinVars, scorerVars, threadVars, multilayerVars, featuresVars>>

LevelNext == BuildGeographyParamsFromLevel

(***************************************************************************)
(* GeographyCollection._build_geography_params_from_features_within        *)
(* (geography.py 243-269), with Geography._build_broadest_params (117-126) *)
(***************************************************************************)
\* attributes a feature of a layer may carry
FeatureAttributeValues == {<<"6">>, <<"6", "0">>}
FeatureAttributes(columns) == [columns -> FeatureAttributeValues]

\* candidate lists that hold no geography twice
Distinct(seq) == \A i, j \in 1..Len(seq) : i # j => seq[i] # seq[j]

\* Geography._build_broadest_params: the build on the feature's values of the
\* required levels that are not wildcard-eligible; False when the build raises
_build_broadest_params(geo, feature_attributes) ==
    LET kept == { r \in { geo.requires[i] : i \in 1..Len(geo.requires) } :
                    r \notin geo.wildcard /\ r \in DOMAIN feature_attributes }
        built == _build_geography_params(geo, [r \in kept |-> feature_attributes[r]])
    IN IF built.result.status = "ok" THEN built.result ELSE [status |-> "False"]

\* lines 250-259: is_possible and params_set of one geography
IsPossible(geo, feats) ==
    \A k \in 1..Len(feats) : _build_broadest_params(geo, feats[k]).status = "ok"

ParamsSet(geo, feats) ==
    { _build_broadest_params(geo, feats[k]) : k \in 1..Len(feats) }

\* geography_params_sets: the possible geographies, in the order tried
geography_params_sets(geos, feats) ==
    SelectSeq([i \in 1..Len(geos) |->
                  [geography |-> geos[i], possible |-> IsPossible(geos[i], feats),
                   params_set |-> IF IsPossible(geos[i], feats)
                                    THEN ParamsSet(geos[i], feats) ELSE {}]],
              LAMBDA e : e.possible)

BestIndex_First(sets) == 1

\* sorted(..., key=len of the params set)[0]: the first of the smallest
BestIndex(sets) ==
    CHOOSE i \in 1..Len(sets) :
        \A j \in 1..Len(sets) :
            \/ Cardinality(sets[i].params_set) < Cardinality(sets[j].params_set)
            \/ /\ Cardinality(sets[i].params_set) = Cardinality(sets[j].params_set)
               /\ i <= j

_build_geography_params_from_features_within(geos, feats) ==
    IF Len(geos) = 0 THEN [status |-> "raised", type |-> "UnknownGeography"]
    ELSE LET sets == geography_params_sets(geos, feats) IN
         IF Len(sets) = 0 THEN [status |-> "raised", type |-> "Exception"]
         ELSE [status |-> "returned",
               geography |-> sets[BestIndex(sets)].geography,
               params |-> sets[BestIndex(sets)].params_set]

WithinStart ==
    /\ fw_pc = "start"
    /\ \E n \in 0..MaxCandidates :
          /\ fw_geographies \in [1..n -> GeographiesNamed("tract")]
          /\ Distinct(fw_geographies)
    /\ \E n \in 0..MaxWithinFeatures, columns \in SUBSET {"state", "county"} :
          features_within \in [1..n -> FeatureAttributes(columns)]
    /\ fw_result = NoResult

WithinIdle ==
    /\ fw_pc = "idle"
    /\ fw_geographies = << >>
    /\ features_within = << >>
    /\ fw_result = NoResult

BuildGeographyParamsFromFeaturesWithin ==
    /\ fw_pc = "start"
    /\ fw_pc' = "done"
    /\ fw_result' = _build_geography_params_from_features_within(
                        fw_geographies, features_within)
    /\ UNCHANGED <<fw_geographies, features_within>>
    /\ UNCHANGED <<paginateVars, geographyVars, areaVars, matchVars, filterVars,
                   convertVars, batchVars, getVars, levelVars, scorerVars, threadVars, multilayerVars, featuresVars>>

WithinNext == BuildGeographyParamsFromFeaturesWithin

(***************************************************************************)
(* build_custom_scorer (tiger.py 90-142) as Layer.get_area_by_name uses it *)
(* (582-663).  A name is the sequence of its words, a word a sequence of   *)
(* characters; costs are in 1/10000, scores in thousandths.                *)
(***************************************************************************)
NameWords == { <<"F", "o", "x">>, <<"b", "a", "y">> }

\* words a caller may type
QueryWords == NameWords \cup { <<"F", "o", "g">> }

\* str.lower
lower_char(c) == IF c = "F" THEN "f" ELSE c

str_lower(t) == [i \in 1..Len(t) |-> lower_char(t[i])]

\* names of one to MaxNameTokens different words
NamesOver(words) ==
    { s \in SeqsUpTo(words, MaxNameTokens) :
        Len(s) >= 1 /\ \A i, j \in 1..Len(s) : i # j => s[i] # s[j] }

FeatureNames == NamesOver(NameWords)

\* thefuzz utils.full_process, the default processor of extractBests: lower
\* case, separators turned into spaces, ends stripped
full_process(name) == [i \in 1..Len(name) |-> str_lower(name[i])]

\* tokenize_feature_name: set(split('\W+', name))
tokenize_feature_name(name) == { name[i] : i \in 1..Len(name) }

\* the string of a name: its words with one space between
RECURSIVE JoinWords(_)
JoinWords(name) ==
    IF name = << >> THEN << >>
    ELSE IF Len(name) = 1 THEN name[1]
    ELSE name[1] \o <<" ">> \o JoinWords(Tail(name))

\* ' '.join(token_set), in some order of the set
RECURSIVE SetToSeq(_)
SetToSeq(S) ==
    IF S = {} THEN << >>
    ELSE LET x == CHOOSE y \in S : TRUE IN <<x>> \o SetToSeq(S \ {x})

RECURSIVE SumSeq(_)
SumSeq(seq) == IF seq = << >> THEN 0 ELSE Head(seq) + SumSeq(Tail(seq))

Smallest(S) == CHOOSE x \in S : \A y \in S : x <= y

\* Levenshtein.distance
RECURSIVE distance(_, _)
distance(s1, s2) ==
    IF s1 = << >> THEN Len(s2)
    ELSE IF s2 = << >> THEN Len(s1)
    ELSE IF Head(s1) = Head(s2) THEN distance(Tail(s1), Tail(s2))
    ELSE 1 + Smallest({ distance(Tail(s1), s2), distance(s1, Tail(s2)),
                        distance(Tail(s1), Tail(s2)) })

\* insertions and deletions only, as Levenshtein.ratio counts them
RECURSIVE indel(_, _)
indel(s1, s2) ==
    IF s1 = << >> THEN Len(s2)
    ELSE IF s2 = << >> THEN Len(s1)
    ELSE IF Head(s1) = Head(s2) THEN indel(Tail(s1), Tail(s2))
    ELSE 1 + Smallest({ indel(Tail(s1), s2), indel(s1, Tail(s2)) })

\* Levenshtein.ratio, in thousandths
ratio(s1, s2) ==
    IF Len(s1) + Len(s2) = 0 THEN 1000
    ELSE (1000 * (Len(s1) + Len(s2) - indel(s1, s2))) \div (Len(s1) + Len(s2))

\* one of distance, in the unit of the costs
CostUnit == 10000

\* numpy.log(N/v) in 1/10000, for the N and v the bounds allow
log(N, v) ==
    CASE N = v -> 0
      [] N = 2 * v -> 6931
      [] N = 3 * v -> 10986
      [] N = 4 * v -> 13863
      [] 2 * N = 3 * v -> 4055
      [] 3 * N = 4 * v -> 2877
      [] 2 * N = v -> -6931
      [] 3 * N = 2 * v -> -4055

count_map_CaseSensitive(token_sets) ==
    [k \in UNION { token_sets[i] : i \in 1..Len(token_sets) } |->
        Cardinality({ i \in 1..Len(token_sets) : k \in token_sets[i] })]

\* lines 605-608: count_map[token.lower()] += 1 for every token of every set
count_map(token_sets) ==
    [k \in { str_lower(t) : t \in UNION { token_sets[i] : i \in 1..Len(token_sets) } } |->
        SumSeq([i \in 1..Len(token_sets) |->
                   Cardinality({ t \in token_sets[i] : str_lower(t) = k })])]

\* line 104
BuildIdfMap(counts, N) == [k \in DOMAIN counts |-> log(N, counts[k])]

\* lines 106-111
token_distance_idf(idf, s1t, s2t) ==
    LET non_empty_t == IF s1t # << >> THEN s1t ELSE s2t IN
    IF (s1t = << >> \/ s2t = << >>) /\ non_empty_t \in DOMAIN idf
      THEN idf[non_empty_t] \div 2
      ELSE CostUnit * distance(s1t, s2t)

\* the token lists of set_distance, padded with '' to the same length k
Padded(tokens, k) ==
    SetToSeq(tokens) \o [i \in 1..(k - Cardinality(tokens)) |-> << >>]

Larger(n, m) == IF n > m THEN n ELSE m

\* scipy linear_sum_assignment: the cost of a cheapest assignment of rows to
\* columns (line 129 sums the cells it picked)
linear_sum_assignment(ld_arr) ==
    LET k == Len(ld_arr)
        assignments == { p \in [1..k -> 1..k] : \A i, j \in 1..k : i # j => p[i] # p[j] }
    IN Smallest({ SumSeq([i \in 1..k |-> ld_arr[i][p[i]]]) : p \in assignments })

\* lines 113-131, returning 1 - nsld in thousandths (rounded down)
OneMinusSetDistance(idf, s1ts, s2ts) ==
    LET ls1t == SumSeq([i \in 1..Cardinality(s1ts) |-> Len(SetToSeq(s1ts)[i])])
        ls2t == SumSeq([i \in 1..Cardinality(s2ts) |-> Len(SetToSeq(s2ts)[i])])
        k == Larger(Cardinality(s1ts), Cardinality(s2ts))
        s1tl == Padded(s1ts, k)
        s2tl == Padded(s2ts, k)
        ld_arr == [i \in 1..k |-> [j \in 1..k |-> token_distance_idf(idf, s1tl[i], s2tl[j])]]
        sld == linear_sum_assignment(ld_arr)
        whole == CostUnit * (ls1t + ls2t) + sld
    IN (1000 * (whole - 2 * sld)) \div whole

\* lines 133-140, on the names process.extractBests hands over
ScoreNames(idf, s1, s2) ==
    LET s1ts == tokenize_feature_name(s1)
        s2ts == tokenize_feature_name(s2)
    IN IF Cardinality(s1ts) = 1 /\ Cardinality(s2ts) = 1
         THEN ratio(JoinWords(s1), JoinWords(s2))
         ELSE OneMinusSetDistance(idf, s1ts, s2ts)

\* the scorer as extractBests applies it: query and choice both run through
\* the default processor first
ProcessedScorer(idf, query, choices) ==
    [n \in choices |-> ScoreNames(idf, full_process(query), full_process(n))]

\* the calls token_distance_idf(t, '') that scoring query against the choices
\* makes: every token of the larger set meets the padding of the smaller
PaddingCalls(idf, query, choices) ==
    UNION { LET s1ts == tokenize_feature_name(full_process(query))
                s2ts == tokenize_feature_name(full_process(n))
                more == IF Cardinality(s1ts) > Cardinality(s2ts) THEN s1ts ELSE s2ts
            IN IF Cardinality(s1ts) = Cardinality(s2ts) THEN {}
               ELSE { [token |-> t, cost |-> token_distance_idf(idf, t, << >>)] : t \in more }
          : n \in choices }

\* line 640
all_missing_tokens_of(bm, query) ==
    { str_lower(t) :
        t \in (UNION { tokenize_feature_name(bm[i][1]) : i \in 1..Len(bm) })
                \ tokenize_feature_name(query) }

\* lines 643-652: the tokens whose addition to the query gives a confident top
ConfidentAdditions(idf, bm, query) ==
    { token \in all_missing_tokens_of(bm, query) :
        Confident(extractBests(
            ProcessedScorer(idf, SetToSeq(tokenize_feature_name(query) \cup {token}),
                            { bm[i][1] : i \in 1..Len(bm) }),
            best_match_geoid_name_dict(bm))) }

TopAfterAdding(idf, bm, query, token) ==
    extractBests(
        ProcessedScorer(idf, SetToSeq(tokenize_feature_name(query) \cup {token}),
                        { bm[i][1] : i \in 1..Len(bm) }),
        best_match_geoid_name_dict(bm))[1][3]

\* lines 615-663
get_area_by_name(idf, names, query) ==
    LET bm == extractBests(ProcessedScorer(idf, query, NamesOf(names)),
                           geoid_name_dict(names))
        decision == DirectDecision(bm)
        found == ConfidentAdditions(idf, bm, query)
    IN CASE decision = "no_match" -> Outcome("no_match", NoGeoid, "direct")
         [] decision = "accept" -> Outcome("returned", bm[1][3], "direct")
         [] OTHER ->
              IF Cardinality(found) = 1
                THEN Outcome("returned",
                             TopAfterAdding(idf, bm, query, CHOOSE t \in found : TRUE),
                             "refine")
                ELSE Outcome("ambiguous", NoGeoid, "refine")

ScorerStart ==
    /\ sc_pc = "start"
    /\ \E n \in 0..MaxFeatures : detailed_names \in [1..n -> FeatureNames]
    /\ parsed_name \in NamesOver(QueryWords)
                        \cup { full_process(n) : n \in NamesOver(QueryWords) }
    /\ idf_map = << >>
    /\ padding_costs = {}
    /\ sc_best_matches = << >>
    /\ sc_result = Pending

ScorerIdle ==
    /\ sc_pc = "idle"
    /\ detailed_names = << >>
    /\ parsed_name = << >>
    /\ idf_map = << >>
    /\ padding_costs = {}
    /\ sc_best_matches = << >>
    /\ sc_result = Pending

GetAreaByName ==
    /\ sc_pc = "start"
    /\ LET token_sets == [i \in 1..Len(detailed_names) |->
                             tokenize_feature_name(detailed_names[i])]
           idf == BuildIdfMap(count_map(token_sets), Len(token_sets))
       IN /\ idf_map' = idf
          /\ padding_costs' = PaddingCalls(idf, parsed_name, NamesOf(detailed_names))
          /\ sc_best_matches' =
                 extractBests(ProcessedScorer(idf, parsed_name, NamesOf(detailed_names)),
                              geoid_name_dict(detailed_names))
          /\ sc_result' = get_area_by_name(idf, detailed_names, parsed_name)
    /\ sc_pc' = "done"
    /\ UNCHANGED <<detailed_names, parsed_name>>
    /\ UNCHANGED <<paginateVars, geographyVars, areaVars, matchVars, filterVars,
                   convertVars, batchVars, getVars, levelVars, withinVars, threadVars, multilayerVars, featuresVars>>

ScorerNext == GetAreaByName

(***************************************************************************)
(* Layer._paginate_through_features, waves past MaxWaves.  The inner loop  *)
(* of lines 395-412 has no bound of its own; the waves an attempt builds   *)
(* after its MaxWaves-th are folded into one: they are built, posted and   *)
(* answered like any other, but the ghost counter, the offset and the      *)
(* gathered list stop growing.                                             *)
(***************************************************************************)
\* lines 395-406 for a wave past MaxWaves
BuildWaveBeyond ==
    /\ pc = "build"
    /\ wave = MaxWaves
    /\ result_record_count >= 1
    /\ params_list' = BuildParamsList(
            PageCount(feature_count, result_record_count),
            result_offset, result_record_count)
    /\ pc' = "posted_beyond"
    /\ UNCHANGED <<feature_count, result_record_count, tries, result_offset,
                   retrieved_all, all_feature_responses, exception, wave,
                   attempt_sizes, api_errors, discarded>>
    /\ UNCHANGED <<geographyVars, areaVars, matchVars, filterVars, convertVars,
                   batchVars, getVars, levelVars, withinVars, scorerVars, threadVars, multilayerVars, featuresVars>>

\* lines 408-414 for a wave past MaxWaves: every response decodes
AnswerBeyond ==
    /\ pc = "posted_beyond"
    /\ \E rs \in ResponsesFor(params_list) :
          /\ retrieved_all' = AnyNotExceeded(rs)
          /\ pc' = IF AnyNotExceeded(rs) THEN "returned" ELSE "build"
          /\ all_feature_responses' =
                 IF AnyNotExceeded(rs) THEN all_feature_responses \o rs
                                       ELSE all_feature_responses
    /\ UNCHANGED <<feature_count, result_record_count, tries, result_offset,
                   params_list, exception, wave, attempt_sizes, api_errors,
                   discarded>>
    /\ UNCHANGED <<geographyVars, areaVars, matchVars, filterVars, convertVars,
                   batchVars, getVars, levelVars, withinVars, scorerVars, threadVars, multilayerVars, featuresVars>>

\* lines 415-421 for a wave past MaxWaves: a request raised, or a body did
\* not decode
FailBeyond ==
    /\ pc = "posted_beyond"
    /\ \E raised_by_request \in BOOLEAN :
          IF raised_by_request
            THEN /\ api_errors' = api_errors + 1
                 /\ IF MayRetry(tries)
                      THEN /\ result_record_count' = Halve(result_record_count)
                           /\ pc' = "try"
                           /\ UNCHANGED exception
                      ELSE /\ pc' = "raised"
                           /\ exception' = [type |-> "TIGERWebAPIError",
                                            message |-> "generating"]
                           /\ UNCHANGED result_record_count
            ELSE /\ pc' = "raised"
                 /\ exception' = DecodingError
                 /\ UNCHANGED <<result_record_count, api_errors>>
    /\ UNCHANGED <<feature_count, tries, result_offset, retrieved_all, params_list,
                   all_feature_responses, wave, attempt_sizes, discarded>>
    /\ UNCHANGED <<geographyVars, areaVars, matchVars, filterVars, convertVars,
                   batchVars, getVars, levelVars, withinVars, scorerVars, threadVars, multilayerVars, featuresVars>>

PaginateLiveNext ==
    \/ StartAttempt
    \/ BuildWave
    \/ PostManyOk
    \/ PostManyApiError
    \/ PostManyDecodeError
    \/ BuildWaveBeyond
    \/ AnswerBeyond
    \/ FailBeyond

(***************************************************************************)
(* Concurrent first access to one Area: the _set_attributes closures of    *)
(* from_tiger_geo_id (tiger.py 240-269) and _from_file_or_url (318-342),   *)
(* run by several threads.  A thread can be suspended between any two of   *)
(* its steps; the fetch blocks on I/O, which lets the other threads run.   *)
(***************************************************************************)
Threads == 1..MaxThreads

PassesCheck_Always(flag) == TRUE

\* falling through `if self._attributes_are_set is True: return`
PassesCheck(flag) == ~AlreadySet(flag)

ThreadStart ==
    /\ th_args \in [source : {"tiger_geo_id", "file", "url"}, clip_to_cb : BOOLEAN]
    /\ th_pc = [t \in Threads |-> "ready"]
    /\ th_flag = FALSE
    /\ th_fetches = 0
    /\ th_saw_unset = {}

ThreadIdle ==
    /\ th_args = [source |-> "tiger_geo_id", clip_to_cb |-> FALSE]
    /\ th_pc = << >>
    /\ th_flag = FALSE
    /\ th_fetches = 0
    /\ th_saw_unset = {}

\* lines 241-242 / 319-320: thread t enters and tests the flag
CheckFlag(t) ==
    /\ th_pc[t] = "ready"
    /\ IF PassesCheck(th_flag)
         THEN /\ th_pc' = [th_pc EXCEPT ![t] = "fetch"]
              /\ th_saw_unset' = IF th_flag THEN th_saw_unset ELSE th_saw_unset \cup {t}
         ELSE /\ th_pc' = [th_pc EXCEPT ![t] = "returned"]
              /\ UNCHANGED th_saw_unset
    /\ UNCHANGED <<th_args, th_flag, th_fetches>>
    /\ UNCHANGED <<paginateVars, geographyVars, areaVars, matchVars, filterVars,
                   convertVars, batchVars, getVars, levelVars, withinVars, scorerVars, multilayerVars, featuresVars>>

\* lines 251-252 / 322-328: the resolving fetch (get_sync, or the file read),
\* which succeeds or raises
Fetch(t) ==
    /\ th_pc[t] = "fetch"
    /\ th_fetches' = th_fetches + 1
    /\ \E ok \in BOOLEAN :
          th_pc' = [th_pc EXCEPT ![t] = IF ok THEN "assign" ELSE "raised"]
    /\ UNCHANGED <<th_args, th_flag, th_saw_unset>>
    /\ UNCHANGED <<paginateVars, geographyVars, areaVars, matchVars, filterVars,
                   convertVars, batchVars, getVars, levelVars, withinVars, scorerVars, multilayerVars, featuresVars>>

\* lines 254-269 / 330-342: the fields are assigned, the geometry is clipped
\* when clip_to_cb is set (reading the national boundary may raise), and the
\* flag is set last
AssignAndSetFlag(t) ==
    /\ th_pc[t] = "assign"
    /\ \E us_ok \in BOOLEAN :
          IF th_args.clip_to_cb /\ ~us_ok
            THEN /\ th_pc' = [th_pc EXCEPT ![t] = "raised"]
                 /\ UNCHANGED th_flag
            ELSE /\ th_pc' = [th_pc EXCEPT ![t] = "returned"]
                 /\ th_flag' = FlagAfterResolve
    /\ UNCHANGED <<th_args, th_fetches, th_saw_unset>>
    /\ UNCHANGED <<paginateVars, geographyVars, areaVars, matchVars, filterVars,
                   convertVars, batchVars, getVars, levelVars, withinVars, scorerVars, multilayerVars, featuresVars>>

ThreadNext ==
    \E t \in Threads :
        \/ CheckFlag(t)
        \/ Fetch(t)
        \/ AssignAndSetFlag(t)

(***************************************************************************)
(* AreaCollection.area and AreaCollection.area_multilayer                  *)
(* (tiger.py 772-838), called by place (1004) and MSA (1032).              *)
(***************************************************************************)
PlaceLayers == <<"Incorporated Places", "Census Designated Places", "County Subdivisions">>

MSALayers == <<"Metropolitan Statistical Areas", "Micropolitan Statistical Areas">>

\* line 772: `cb: bool = True`
DefaultCb == TRUE

\* lines 789-798: AreaCollection.area; the layer search builds the Area with
\* clip_to_cb = cb (lines 573, 663) and resolves it at once, which clips the
\* geometry to the national cartographic boundary exactly when cb is set
collection_area(lname, clip, available, matching) ==
    IF lname \notin available
      THEN [kind |-> "ValueError", layer |-> lname, clipped |-> FALSE]
      ELSE IF lname \notin matching
             THEN [kind |-> "Exception", layer |-> lname, clipped |-> FALSE]
             ELSE [kind |-> "Area", layer |-> lname, clipped |-> clip]

\* lines 827-832: the first listed, available layer whose search succeeds
RECURSIVE SearchLayers(_, _, _, _)
SearchLayers(names, clip, available, matching) ==
    IF names = << >>
      THEN [kind |-> "Exception", layer |-> "", clipped |-> FALSE]
      ELSE LET tried == collection_area(Head(names), clip, available, matching)
           IN  IF Head(names) \in available /\ tried.kind = "Area"
                 THEN tried
                 ELSE SearchLayers(Tail(names), clip, available, matching)

\* lines 819-838
area_multilayer(names, specific, clip, available, matching) ==
    IF specific # None /\ Get(specific) # ""
      THEN IF \E i \in 1..Len(names) : names[i] = Get(specific)
             THEN collection_area(Get(specific), DefaultCb, available, matching)
             ELSE [kind |-> "ValueError", layer |-> Get(specific), clipped |-> FALSE]
      ELSE SearchLayers(names, clip, available, matching)

SeqRange(s) == { s[i] : i \in 1..Len(s) }

MultilayerStart ==
    /\ ml_pc = "start"
    /\ ml_layer_names \in {PlaceLayers, MSALayers}
    /\ ml_specific_layer \in {None} \cup
          { Some(l) : l \in SeqRange(ml_layer_names) \cup {"", "Counties"} }
    /\ ml_cb \in BOOLEAN
    /\ ml_available \in SUBSET SeqRange(ml_layer_names)
    /\ ml_matching \in SUBSET ml_available
    /\ ml_result = None

MultilayerIdle ==
    /\ ml_pc = "idle"
    /\ ml_layer_names = << >>
    /\ ml_specific_layer = None
    /\ ml_cb = TRUE
    /\ ml_available = {}
    /\ ml_matching = {}
    /\ ml_result = None

AreaMultilayer ==
    /\ ml_pc = "start"
    /\ ml_pc' = "done"
    /\ ml_result' = Some(area_multilayer(ml_layer_names, ml_specific_layer, ml_cb,
                                         ml_available, ml_matching))
    /\ UNCHANGED <<ml_layer_names, ml_specific_layer, ml_cb, ml_available, ml_matching>>
    /\ UNCHANGED <<paginateVars, geographyVars, areaVars, matchVars, filterVars,
                   convertVars, batchVars, getVars, levelVars, withinVars, scorerVars,
                   threadVars, featuresVars>>

MultilayerNext == AreaMultilayer

(***************************************************************************)
(* Layer.get_features (tiger.py 509-556) with the requests that            *)
(* _get_feature_attributes (435-456) and _get_feature_geometry (458-507)   *)
(* post.  A row is [OBJECTID, geometry]; the geometry of a row fetched     *)
(* with returnGeometry = false is None.                                    *)
(***************************************************************************)
Request(kind, returnGeometry, spatial, ids) ==
    [kind |-> kind, returnGeometry |-> returnGeometry, spatial |-> spatial,
     objectIds |-> ids]

\* lines 436-455: the count request, then the paginated feature request
AttributeRequests(within) ==
    << Request("count", FALSE, Truthy(within), None),
       Request("features", FALSE, Truthy(within), None) >>

\* lines 459-492: the region is sent only `if within_geometry and not
\* object_ids`, objectIds only `if object_ids`; the count request only when
\* object_ids is None
GeometryRequests(within, ids) ==
    LET spatial == Truthy(within) /\ ~Truthy(ids)
        sent == IF Truthy(ids) THEN ids ELSE None
    IN  (IF ids = None THEN << Request("count", TRUE, spatial, sent) >> ELSE << >>)
        \o << Request("features", TRUE, spatial, sent) >>

AttributeRows(layer, within) ==
    { [OBJECTID |-> f.OBJECTID, geometry |-> None] :
          f \in QueryFeatures(layer, within, None) }

GeometryRows(layer, within, thr, ids) ==
    { [OBJECTID |-> f.OBJECTID, geometry |-> Some(f.geometry)] :
          f \in FilterByArea(QueryFeatures(layer, within, ids), within, thr) }

\* line 548: drop the attribute frame's geometry column, inner merge on GEOID
Merge(attrs, geometries) ==
    { g \in geometries : \E a \in attrs : a.OBJECTID = g.OBJECTID }

Frame(has_geometry, rows) ==
    [kind |-> "frame", geometry_column |-> has_geometry, rows |-> rows]

Raised(error) == [kind |-> error, geometry_column |-> FALSE, rows |-> {}]

FeaturesStart ==
    /\ gf_pc = "start"
    /\ \E n \in 0..MaxLayerFeatures : gf_layer \in LayersOf(n)
    /\ gf_within \in {None} \cup { Some(g) : g \in SUBSET RegionCells }
    /\ gf_threshold \in {None} \cup { Some(t) : t \in Thresholds }
    /\ gf_return_attributes \in BOOLEAN
    /\ gf_return_geometry \in BOOLEAN
    /\ gf_requests = << >>
    /\ gf_attribute_ids = None
    /\ gf_result = None

FeaturesIdle ==
    /\ gf_pc = "idle"
    /\ gf_layer = {}
    /\ gf_within = None
    /\ gf_threshold = None
    /\ gf_return_attributes = TRUE
    /\ gf_return_geometry = FALSE
    /\ gf_requests = << >>
    /\ gf_attribute_ids = None
    /\ gf_result = None

\* lines 544-550, return_attributes true.  attrs_ok / geometry_ok: whether the
\* paginated fetch returns or raises TIGERWebAPIError.  has_columns: whether
\* the frame built from zero features has the OBJECTID and geometry columns
\* (GeoDataFrame.from_features of an empty list decides; lines 547-550 raise
\* KeyError on a frame without them).
GetFeaturesWithAttributes ==
    /\ gf_pc = "start"
    /\ gf_return_attributes
    /\ gf_pc' = "done"
    /\ LET attrs == AttributeRows(gf_layer, gf_within)
           ids == Some({ a.OBJECTID : a \in attrs })
       IN  \E attrs_ok, geometry_ok \in BOOLEAN :
           \E has_columns \in (IF attrs = {} THEN BOOLEAN ELSE {TRUE}) :
             IF ~attrs_ok
               THEN /\ gf_requests' = AttributeRequests(gf_within)
                    /\ gf_attribute_ids' = None
                    /\ gf_result' = Some(Raised("TIGERWebAPIError"))
             ELSE IF gf_threshold # None
               THEN IF ~has_columns
                      THEN /\ gf_requests' = AttributeRequests(gf_within)
                           /\ gf_attribute_ids' = ids
                           /\ gf_result' = Some(Raised("KeyError"))
                      ELSE /\ gf_requests' = AttributeRequests(gf_within)
                                                \o GeometryRequests(gf_within, ids)
                           /\ gf_attribute_ids' = ids
                           /\ gf_result' =
                                IF ~geometry_ok
                                  THEN Some(Raised("TIGERWebAPIError"))
                                  ELSE Some(Frame(gf_return_geometry,
                                         Merge(attrs, GeometryRows(gf_layer, gf_within,
                                                         gf_threshold, ids))))
             ELSE /\ gf_requests' = AttributeRequests(gf_within)
                  /\ gf_attribute_ids' = ids
                  /\ gf_result' =
                       IF gf_return_geometry THEN Some(Frame(has_columns, attrs))
                       ELSE IF has_columns THEN Some(Frame(FALSE, attrs))
                       ELSE Some(Raised("KeyError"))
    /\ UNCHANGED <<gf_layer, gf_within, gf_threshold, gf_return_attributes,
                   gf_return_geometry>>
    /\ UNCHANGED <<paginateVars, geographyVars, areaVars, matchVars, filterVars,
                   convertVars, batchVars, getVars, levelVars, withinVars, scorerVars,
                   threadVars, multilayerVars>>

\* lines 551-552, return_attributes false
GetFeaturesGeometryOnly ==
    /\ gf_pc = "start"
    /\ ~gf_return_attributes
    /\ gf_pc' = "done"
    /\ gf_requests' = GeometryRequests(gf_within, None)
    /\ \E geometry_ok \in BOOLEAN :
          gf_result' = IF geometry_ok
                         THEN Some(Frame(TRUE, GeometryRows(gf_layer, gf_within,
                                                            gf_threshold, None)))
                         ELSE Some(Raised("TIGERWebAPIError"))
    /\ UNCHANGED <<gf_layer, gf_within, gf_threshold, gf_return_attributes,
                   gf_return_geometry, gf_attribute_ids>>
    /\ UNCHANGED <<paginateVars, geographyVars, areaVars, matchVars, filterVars,
                   convertVars, batchVars, getVars, levelVars, withinVars, scorerVars,
                   threadVars, multilayerVars>>

FeaturesNext ==
    \/ GetFeaturesWithAttributes
    \/ GetFeaturesGeometryOnly

(***************************************************************************)
(* Specifications: one per component, the other components idle            *)
(***************************************************************************)

PaginateInit == PaginateStart /\ GeographyIdle /\ AreaIdle /\ MatchIdle
        /\ FilterIdle /\ ConvertIdle /\ BatchIdle /\ GetIdle
        /\ LevelIdle
        /\ WithinIdle
        /\ ScorerIdle
        /\ ThreadIdle
        /\ MultilayerIdle
        /\ FeaturesIdle

SpecPaginate == PaginateInit /\ [][PaginateNext]_vars

\* the same call with no bound on the waves of an attempt; every step that
\* can be taken is taken, since the code runs on and every batch completes
SpecPaginateLive ==
    PaginateInit /\ [][PaginateLiveNext]_vars /\ WF_vars(PaginateLiveNext)

GeographyInit == GeographyStart /\ PaginateIdle /\ AreaIdle /\ MatchIdle
        /\ FilterIdle /\ ConvertIdle /\ BatchIdle /\ GetIdle
        /\ LevelIdle
        /\ WithinIdle
        /\ ScorerIdle
        /\ ThreadIdle
        /\ MultilayerIdle
        /\ FeaturesIdle

SpecGeography == GeographyInit /\ [][GeographyNext]_vars

AreaInit == AreaStart /\ PaginateIdle /\ GeographyIdle /\ MatchIdle /\ FilterIdle
        /\ ConvertIdle /\ BatchIdle /\ GetIdle
        /\ LevelIdle
        /\ WithinIdle
        /\ ScorerIdle
        /\ ThreadIdle
        /\ MultilayerIdle
        /\ FeaturesIdle

SpecArea == AreaInit /\ [][AreaNext]_vars

MatchInit == MatchStart /\ PaginateIdle /\ GeographyIdle /\ AreaIdle /\ FilterIdle
        /\ ConvertIdle /\ BatchIdle /\ GetIdle
        /\ LevelIdle
        /\ WithinIdle
        /\ ScorerIdle
        /\ ThreadIdle
        /\ MultilayerIdle
        /\ FeaturesIdle

SpecMatch == MatchInit /\ [][MatchNext]_vars

FilterInit == FilterStart /\ PaginateIdle /\ GeographyIdle /\ AreaIdle /\ MatchIdle
        /\ ConvertIdle /\ BatchIdle /\ GetIdle
        /\ LevelIdle
        /\ WithinIdle
        /\ ScorerIdle
        /\ ThreadIdle
        /\ MultilayerIdle
        /\ FeaturesIdle

SpecFilter == FilterInit /\ [][FilterNext]_vars

ConvertInit == ConvertStart /\ PaginateIdle /\ GeographyIdle /\ AreaIdle
        /\ MatchIdle /\ FilterIdle /\ BatchIdle /\ GetIdle
        /\ LevelIdle
        /\ WithinIdle
        /\ ScorerIdle
        /\ ThreadIdle
        /\ MultilayerIdle
        /\ FeaturesIdle

SpecConvert == ConvertInit /\ [][ConvertNext]_vars

BatchInit == BatchStart /\ PaginateIdle /\ GeographyIdle /\ AreaIdle /\ MatchIdle
        /\ FilterIdle /\ ConvertIdle /\ GetIdle
        /\ LevelIdle
        /\ WithinIdle
        /\ ScorerIdle
        /\ ThreadIdle
        /\ MultilayerIdle
        /\ FeaturesIdle

SpecBatch == BatchInit /\ [][BatchNext]_vars

GetInit == GetStart /\ PaginateIdle /\ GeographyIdle /\ AreaIdle /\ MatchIdle
        /\ FilterIdle /\ ConvertIdle /\ BatchIdle
        /\ LevelIdle
        /\ WithinIdle
        /\ ScorerIdle
        /\ ThreadIdle
        /\ MultilayerIdle
        /\ FeaturesIdle

SpecGet == GetInit /\ [][GetNext]_vars

LevelInit == LevelStart /\ PaginateIdle /\ GeographyIdle /\ AreaIdle /\ MatchIdle
        /\ FilterIdle /\ ConvertIdle /\ BatchIdle /\ GetIdle
        /\ WithinIdle
        /\ ScorerIdle
        /\ ThreadIdle
        /\ MultilayerIdle
        /\ FeaturesIdle

SpecLevel == LevelInit /\ [][LevelNext]_vars

WithinInit == WithinStart /\ PaginateIdle /\ GeographyIdle /\ AreaIdle /\ MatchIdle
        /\ FilterIdle /\ ConvertIdle /\ BatchIdle /\ GetIdle /\ LevelIdle
        /\ ScorerIdle
        /\ ThreadIdle
        /\ MultilayerIdle
        /\ FeaturesIdle

SpecWithin == WithinInit /\ [][WithinNext]_vars

ScorerInit == ScorerStart /\ PaginateIdle /\ GeographyIdle /\ AreaIdle /\ MatchIdle
        /\ FilterIdle /\ ConvertIdle /\ BatchIdle /\ GetIdle /\ LevelIdle
        /\ WithinIdle
        /\ ThreadIdle
        /\ MultilayerIdle
        /\ FeaturesIdle

SpecScorer == ScorerInit /\ [][ScorerNext]_vars

ThreadInit == ThreadStart /\ PaginateIdle /\ GeographyIdle /\ AreaIdle /\ MatchIdle
        /\ FilterIdle /\ ConvertIdle /\ BatchIdle /\ GetIdle /\ LevelIdle
        /\ WithinIdle /\ ScorerIdle
        /\ MultilayerIdle
        /\ FeaturesIdle

SpecThreads == ThreadInit /\ [][ThreadNext]_vars

MultilayerInit == MultilayerStart /\ PaginateIdle /\ GeographyIdle /\ AreaIdle /\ MatchIdle
        /\ FilterIdle /\ ConvertIdle /\ BatchIdle /\ GetIdle /\ LevelIdle
        /\ WithinIdle /\ ScorerIdle /\ ThreadIdle
        /\ FeaturesIdle

SpecMultilayer == MultilayerInit /\ [][MultilayerNext]_vars

FeaturesInit == FeaturesStart /\ PaginateIdle /\ GeographyIdle /\ AreaIdle /\ MatchIdle
        /\ FilterIdle /\ ConvertIdle /\ BatchIdle /\ GetIdle /\ LevelIdle
        /\ WithinIdle /\ ScorerIdle /\ ThreadIdle /\ MultilayerIdle

SpecFeatures == FeaturesInit /\ [][FeaturesNext]_vars

(***************************************************************************)
(* Claims about Layer._paginate_through_features                           *)
(***************************************************************************)

GeneratingError == [type |-> "TIGERWebAPIError", message |-> "generating"]

\* C1: every attempt that fails with TIGERWebAPIError restarts the whole fetch
\* (offset 0, nothing gathered) with the page size halved by integer division;
\* there are at most 3 attempts, each one after the first following a failure,
\* and the third failure leaves the call with TIGERWebAPIError, never a 4th try.
C1_RetryHalvesAtMostTwice ==
    /\ Len(attempt_sizes) = tries
    /\ tries <= 3
    /\ \A i \in 2..Len(attempt_sizes) : attempt_sizes[i] = attempt_sizes[i-1] \div 2
    /\ tries = api_errors + (IF pc = "try" \/ api_errors = 3 THEN 0 ELSE 1)
    /\ (pc = "build" /\ wave = 0) =>
           (result_offset = 0 /\ all_feature_responses = <<>>)
    /\ (api_errors = 3) <=> (pc = "raised" /\ exception = GeneratingError)
    /\ (pc = "try" /\ api_errors > 0) =>
           result_record_count = attempt_sizes[Len(attempt_sizes)] \div 2

C1_Witness ==
    /\ pc = "raised"
    /\ exception = GeneratingError
    /\ api_errors = 3
    /\ attempt_sizes = <<4, 2, 1>>

\* C10 as stated: the first wave of an attempt issues exactly ceil(c / p) page
\* requests, with resultOffset 0, p, 2p, ... and resultRecordCount p.
C10_CeilPagesPerWave ==
    (pc = "posted" /\ wave = 1) =>
        /\ Len(params_list) = Ceil(feature_count, result_record_count)
        /\ \A i \in 1..Len(params_list) :
              params_list[i] = [resultRecordCount |-> result_record_count,
                                resultOffset |-> (i - 1) * result_record_count]

\* C10 amended: every wave issues exactly 1 + floor(c / p) page requests with
\* resultRecordCount p; the first wave of an attempt uses resultOffset
\* 0, p, 2p, ... and a further wave of the attempt goes on from the next offset.
C10_FloorPlusOnePagesPerWave ==
    (pc = "posted") =>
        LET n == (feature_count \div result_record_count) + 1 IN
        /\ Len(params_list) = n
        /\ \A i \in 1..n :
              params_list[i] = [resultRecordCount |-> result_record_count,
                                resultOffset |->
                                   ((wave - 1) * n + (i - 1)) * result_record_count]

C10_Witness ==
    /\ pc = "posted"
    /\ wave = 1
    /\ feature_count = 4
    /\ result_record_count = 2
    /\ Len(params_list) = 3
    /\ params_list[3].resultOffset = 4

(***************************************************************************)
(* Claims about Geography._build_geography_params                          *)
(***************************************************************************)

\* reading an entry 'level:value' back, as the statistics API does
ColonAt(e) == CHOOSE k \in 1..Len(e) : e[k] = Colon /\ \A j \in 1..(k - 1) : e[j] # Colon

ParseEntry(e) ==
    [level |-> CHOOSE l \in LevelSet : Chars(l) = SubSeq(e, 1, ColonAt(e) - 1),
     value |-> SubSeq(e, ColonAt(e) + 1, Len(e))]

Parsed(result) ==
    {ParseEntry(result.for[i]) : i \in 1..Len(result.for)}
        \cup {ParseEntry(result.in[i]) : i \in 1..Len(result.in)}

ParsedValue(result, l) == (CHOOSE q \in Parsed(result) : q.level = l).value

\* the fixed width of a level's identifiers
Width(l) == CASE l = "state" -> 2 [] l = "county" -> 3 [] l = "tract" -> 6

\* padded is value, an integer literal, zero-padded to width w
IsZeroPaddedOf(padded, value, w) ==
    /\ \A i \in 1..Len(padded) : \E d \in 1..10 : DigitChars[d] = padded[i]
    /\ IntOf(padded) = IntOf(value)
    /\ Len(padded) >= w
    /\ (Len(padded) > w) => (padded[1] # "0")

Called == geo_calls > 0
RequiresSet == {geography.requires[i] : i \in 1..Len(geography.requires)}
OwnLevels == RequiresSet \cup {geography.name}
Supplied(l) == l \in DOMAIN geo_supplied
Concrete(l) == Supplied(l) /\ geo_supplied[l] # Star

\* the call returned, and its entries read back are exactly the concrete
\* filters of the geography's own levels, each zero-padded
RoundTrip ==
    /\ geo_result.status = "ok"
    /\ {q.level : q \in {x \in Parsed(geo_result) : x.value # Star}}
          = {l \in OwnLevels : Concrete(l)}
    /\ \A q \in {x \in Parsed(geo_result) : x.value # Star} :
          IsZeroPaddedOf(q.value, geo_supplied[q.level], Width(q.level))

\* a level that is '*' or omitted lies outside a level with a concrete value
LooseOutsidePinned(i) ==
    /\ ~Concrete(geography.requires[i])
    /\ \/ Concrete(geography.name)
       \/ \E j \in (i + 1)..Len(geography.requires) : Concrete(geography.requires[j])

\* C2 as stated: whenever every level of requires is supplied or listed in
\* wildcard, the call succeeds and its for/in entries parse back to exactly
\* the supplied non-wildcard (level, zero-padded value) pairs.
C2_RoundTripWheneverCovered ==
    (Called /\ \A r \in RequiresSet : Supplied(r) \/ r \in geography.wildcard) =>
        /\ RoundTrip
        /\ \A l \in DOMAIN geo_supplied : Concrete(l) => l \in OwnLevels

\* C2 amended: when every level of requires carries a concrete value or is
\* listed in wildcard, and no level that is '*' or omitted lies outside a level
\* (or the target) that carries a concrete value, the call succeeds and its
\* entries parse back to exactly the concrete filters of the geography's own
\* levels, zero-padded; filters for other levels are ignored.
C2_RoundTripWhenHierarchyValid ==
    (/\ Called
     /\ \A r \in RequiresSet : Concrete(r) \/ r \in geography.wildcard
     /\ \A i \in 1..Len(geography.requires) : ~LooseOutsidePinned(i))
    => RoundTrip

C2_Witness ==
    /\ Called
    /\ geography = [name |-> "tract", requires |-> <<"state", "county">>,
                    wildcard |-> {"county"}]
    /\ geo_supplied = [l \in {"state"} |-> <<"6">>]
    /\ geo_result.status = "ok"
    /\ geo_result.in = <<Format("county", Star), Format("state", <<"0", "6">>)>>

\* C3: a returned parameter set never has '*' on a required level while a more
\* specific level (later in requires, or the target) has a concrete value, and
\* every input that would need that is rejected with InvalidGeographyHierarchy.
C3_NoWildcardOutsidePinned ==
    Called =>
      /\ (geo_result.status = "ok") =>
            \A i \in 1..Len(geography.requires) :
               (ParsedValue(geo_result, geography.requires[i]) = Star) =>
                  /\ ParsedValue(geo_result, geography.name) = Star
                  /\ \A j \in (i + 1)..Len(geography.requires) :
                        ParsedValue(geo_result, geography.requires[j]) = Star
      /\ (\E i \in 1..Len(geography.requires) : LooseOutsidePinned(i)) =>
            /\ geo_result.status = "raised"
            /\ geo_result.type = "InvalidGeographyHierarchy"

C3_Witness ==
    /\ Called
    /\ geography = [name |-> "county", requires |-> <<"state">>, wildcard |-> {"state"}]
    /\ geo_supplied = [l \in {"county"} |-> <<"6">>]
    /\ geo_result.status = "raised"
    /\ geo_result.kind = "cannot use wildcard"
    /\ geo_result.level = "state"

OmittedNotEligible(l) == ~Supplied(l) /\ l \notin geography.wildcard

\* the message of a raised InvalidGeographyHierarchy names level l
Names(result, l) == result.level = l \/ l \in result.others

\* C4 as stated: whenever the filters omit a level of requires that is not
\* listed in wildcard, the call raises InvalidGeographyHierarchy and the
\* message names that omitted level.
C4_NamesEveryOmittedLevel ==
    Called =>
      \A l \in RequiresSet :
         OmittedNotEligible(l) =>
            /\ geo_result.status = "raised"
            /\ geo_result.type = "InvalidGeographyHierarchy"
            /\ Names(geo_result, l)

\* level requires[i] cannot be used as supplied: omitted or '*' without being
\* listed in wildcard, or a wildcard outside a level with a concrete value
Unusable(i) ==
    \/ geography.requires[i] \notin geography.wildcard
          /\ ~Concrete(geography.requires[i])
    \/ LooseOutsidePinned(i)

InnermostUnusable ==
    CHOOSE i \in 1..Len(geography.requires) :
        Unusable(i) /\ \A j \in (i + 1)..Len(geography.requires) : ~Unusable(j)

\* C4 amended: whenever the filters omit a level of requires that is not
\* listed in wildcard, the call raises InvalidGeographyHierarchy, and the
\* message names the innermost unusable level of requires; that is the omitted
\* level (with the 'must supplied' message) when no more specific level of
\* requires is unusable.
C4_NamesInnermostUnusableLevel ==
    (Called /\ \E l \in RequiresSet : OmittedNotEligible(l)) =>
        /\ geo_result.status = "raised"
        /\ geo_result.type = "InvalidGeographyHierarchy"
        /\ geo_result.level = geography.requires[InnermostUnusable]
        /\ OmittedNotEligible(geography.requires[InnermostUnusable]) =>
              /\ geo_result.kind = "must supplied"
              /\ geo_result.others = {}

C4_Witness ==
    /\ Called
    /\ geography = [name |-> "tract", requires |-> <<"state", "county">>,
                    wildcard |-> {"county"}]
    /\ geo_supplied = [l \in {"county"} |-> <<"0", "6">>]
    /\ geo_result.status = "raised"
    /\ geo_result.kind = "must supplied"
    /\ geo_result.level = "state"

(***************************************************************************)
(* Claims about Area                                                       *)
(***************************************************************************)

\* C5: over any single-threaded sequence of _set_attributes, __repr__, plot and
\* clip_to_cb (and remove_water), the fetch or file read that resolves the Area
\* completes a resolution at most once, and no call made once the Area is
\* resolved fetches again.
C5_ResolvedAtMostOnce ==
    /\ area_log.resolutions <= 1
    /\ area_log.late_fetches = 0
    /\ area._attributes_are_set => area_log.resolutions = 1
    /\ area_log.late_calls > 0 => area._attributes_are_set

C5_Witness ==
    /\ area._attributes_are_set
    /\ area_log.late_calls = 2
    /\ area_log.fetches = 1
    /\ area_log.last_op = "clip_to_cb"
    /\ ~area_log.raised

\* C6 as stated: once the Area is resolved, no later operation, clip_to_cb and
\* remove_water included, changes its name, attributes or geometry.
C6_ResolvedFieldsImmutable ==
    [][area._attributes_are_set =>
          /\ area'.name = area.name
          /\ area'.attributes = area.attributes
          /\ area'.geometry = area.geometry]_vars

\* C6 amended: once the Area is resolved it stays resolved and no later
\* operation changes its name or attributes; _set_attributes, __repr__ and plot
\* leave the geometry unchanged too, clip_to_cb replaces it by its intersection
\* with the national boundary and remove_water by what is left of it without
\* the water found.
C6_ResolvedNameAndAttributesImmutable ==
    [][area._attributes_are_set =>
          /\ area'._attributes_are_set
          /\ area'.name = area.name
          /\ area'.attributes = area.attributes
          /\ area_log'.last_op \in {"_set_attributes", "__repr__", "plot"} =>
                area'.geometry = area.geometry
          /\ area_log'.last_op = "clip_to_cb" =>
                \/ area'.geometry = Some(Get(area.geometry) \cap US_GEOMETRY)
                \/ area_log'.raised /\ area'.geometry = area.geometry
          /\ area_log'.last_op = "remove_water" =>
                /\ area'.geometry # None
                /\ Get(area'.geometry) \subseteq Get(area.geometry)]_vars

C6_Witness ==
    /\ area._attributes_are_set
    /\ area_log.last_op = "remove_water"
    /\ ~area_log.raised
    /\ area_args.feature = {1, 2}
    /\ area.geometry = Some({1})
    /\ area.name = Some("NAME")
    /\ area.attributes = FeatureProperties


(***************************************************************************)
(* Claims about Layer.get_area_by_name                                     *)
(***************************************************************************)
Decided == match_pc \in {"refine", "done"}

TopScore == best_matches[1][2]
TopGeoid == best_matches[1][3]
RunnerUpScore == best_matches[2][2]

\* best_matches is the ranking the claim starts from: the candidates scoring
\* at least 0.8, each with its own score, best first, at most 20 of them
IsRanking ==
    /\ Len(best_matches) <= 20
    /\ \A i \in 1..Len(best_matches) :
          /\ best_matches[i][3] \in 1..Len(features)
          /\ best_matches[i][1] = features[best_matches[i][3]]
          /\ best_matches[i][2] = custom_scorer[best_matches[i][1]]
          /\ best_matches[i][2] >= 800
    /\ \A i, j \in 1..Len(best_matches) :
          i < j => /\ best_matches[i][2] >= best_matches[j][2]
                   /\ best_matches[i][3] # best_matches[j][3]
    /\ \A g \in 1..Len(features) :
          custom_scorer[features[g]] >= 800 =>
              \E i \in 1..Len(best_matches) : best_matches[i][3] = g

ReturnedDirectly(g) ==
    /\ match_pc = "done"
    /\ match_result = [status |-> "returned", GEOID |-> g, step |-> "direct"]

NothingAcceptedDirectly ==
    /\ match_result.step # "direct"
    /\ match_pc = "done" => match_result.step = "refine"

\* C7: once the candidates are scored, get_area_by_name raises the no-match
\* error when no candidate scores at least 0.8; returns the top candidate when
\* there is exactly one or the top score is at least 0.99; returns the top
\* candidate when the top score is above 0.95 and exceeds the runner-up's by
\* more than 0.05; and in every other case accepts nothing at this step (it
\* goes on to the refinement).
C7_DirectAcceptance ==
    Decided =>
      /\ IsRanking
      /\ Len(best_matches) = 0 =>
            /\ match_pc = "done"
            /\ match_result = [status |-> "no_match", GEOID |-> NoGeoid,
                               step |-> "direct"]
      /\ Len(best_matches) = 1 => ReturnedDirectly(TopGeoid)
      /\ (Len(best_matches) >= 1 /\ TopScore >= 990) => ReturnedDirectly(TopGeoid)
      /\ (Len(best_matches) >= 2 /\ TopScore > 950 /\ TopScore - RunnerUpScore > 50)
            => ReturnedDirectly(TopGeoid)
      /\ (/\ Len(best_matches) >= 2
          /\ TopScore < 990
          /\ ~(TopScore > 950 /\ TopScore - RunnerUpScore > 50))
            => NothingAcceptedDirectly

\* two shortlisted candidates, the top one exactly at 0.99 with the runner-up
\* too close for the margin rule: returned on the strength of the 0.99 rule
C7_Witness ==
    /\ Len(best_matches) >= 2
    /\ TopScore = 990
    /\ TopScore - RunnerUpScore <= 50
    /\ ReturnedDirectly(TopGeoid)

\* C8: when two candidates of the layer have the same detailed name, the call
\* returns neither of them: a returned GEOID is the only feature of the layer
\* with its detailed name.
C8_NeverPicksBetweenIndistinguishable ==
    match_result.status = "returned" =>
        \A g \in 1..Len(features) :
            g # match_result.GEOID => features[g] # features[match_result.GEOID]

(***************************************************************************)
(* Claims about Layer._get_feature_geometry                                *)
(***************************************************************************)
RegionGiven == within_geometry # None /\ Get(within_geometry) # {}

ThresholdGiven == area_threshold # None

Kept(f) == \E r \in gdf : r.OBJECTID = f.OBJECTID

\* the overlap of feature f with the region, and its comparison with the
\* threshold num/den, by cross-multiplication
Overlap(f) == Cardinality(f.geometry \cap Get(within_geometry))

RatioEqualsThreshold(f) ==
    Overlap(f) * Get(area_threshold).den = Get(area_threshold).num * Cardinality(f.geometry)

RatioBelowThreshold(f) ==
    Overlap(f) * Get(area_threshold).den < Get(area_threshold).num * Cardinality(f.geometry)

RatioAboveThreshold(f) ==
    Overlap(f) * Get(area_threshold).den > Get(area_threshold).num * Cardinality(f.geometry)

C11_EachIdentifierAtMostOnce ==
    convert_pc = "done" =>
        \A i, j \in 1..Len(converted_gdf) :
            converted_gdf[i] = converted_gdf[j] => i = j

(***************************************************************************)
(* More claims about Layer._paginate_through_features                      *)
(***************************************************************************)
DecodeFailed == exception.message = "decoding"

\* the decode failure ends the call in the attempt it happened in: no new
\* attempt was started and the page size is the one that attempt began with
FailedAtOnce ==
    /\ pc = "raised"
    /\ Len(attempt_sizes) = tries
    /\ tries = api_errors + 1
    /\ result_record_count = attempt_sizes[tries]

\* C12 as stated: a response that cannot be decoded makes the fetch fail at
\* once, without retry or halving, with an error of a kind distinct from the
\* kind raised for a server-reported failure.
C12_DecodeErrorOfDistinctKind ==
    DecodeFailed =>
        /\ FailedAtOnce
        /\ exception.type # GeneratingError.type

\* C12 as the code has it: a response that cannot be decoded makes the fetch
\* fail at once, without retry or halving; the error is a TIGERWebAPIError,
\* the class also raised for a server-reported failure, and differs from
\* that error by its message only.
C12_DecodeErrorFatalSameClass ==
    DecodeFailed =>
        /\ FailedAtOnce
        /\ exception.type = "TIGERWebAPIError"
        /\ exception.type = GeneratingError.type
        /\ exception.message # GeneratingError.message

\* a decode failure in the second attempt, after one halving
C12_Witness ==
    /\ DecodeFailed
    /\ pc = "raised"
    /\ tries = 2
    /\ api_errors = 1

\* the responses of the wave answered last
LastWave ==
    SubSeq(all_feature_responses,
           Len(all_feature_responses) - Len(params_list) + 1,
           Len(all_feature_responses))

WaveAnswered == wave >= 1 /\ pc \in {"build", "returned"}

\* C13 as stated: once the first wave of an attempt, which covers the counted
\* records, has been answered, no further wave is issued in that attempt.
C13_OneWavePerAttempt == wave <= 1

\* C13 as the code has it: after a wave has been answered the call issues a
\* further wave in the same attempt exactly when every response of that wave
\* carries exceededTransferLimit, and returns when at least one does not.
C13_RepagesWhenEveryResponseFlagged ==
    WaveAnswered =>
        /\ pc = "build" <=>
              \A i \in 1..Len(LastWave) : LastWave[i].exceededTransferLimit
        /\ pc = "returned" <=>
              \E i \in 1..Len(LastWave) : ~LastWave[i].exceededTransferLimit
        /\ Len(LastWave) = Len(params_list)

\* a second wave of one attempt has been issued, after a first wave of several
\* responses
C13_Witness ==
    /\ wave = 2
    /\ pc = "posted"
    /\ Len(all_feature_responses) >= 2
    /\ \A i \in 1..Len(all_feature_responses) :
          all_feature_responses[i].exceededTransferLimit

(***************************************************************************)
(* Claims about CensusClient.get_many / TIGERClient.get_many               *)
(***************************************************************************)
InFlight == { i \in 1..Len(tasks) : tasks[i] = "in_flight" }

Started(i) == tasks[i] \in {"in_flight", "done", "failed"}

Completed(i) == tasks[i] \in {"done", "failed"}

\* C14: at no moment are more than chunk_size requests of the batch in
\* flight, and a request of a later chunk has started only if every request
\* of the chunks before it has completed.
C14_AtMostChunkSizeInFlight ==
    /\ Cardinality(InFlight) <= chunk_size
    /\ \A i, j \in 1..Len(tasks) :
          (ChunkOf(i, chunk_size) < ChunkOf(j, chunk_size) /\ Started(j))
              => Completed(i)

(***************************************************************************)
(* Claims about CensusClient.get / TIGERClient.get                         *)
(***************************************************************************)
OwnApiError == IF client = "census" THEN "CensusAPIError" ELSE "TIGERWebAPIError"

SuccessStatus(status) ==
    status = Some(200) \/ (client = "census" /\ status = Some(204))

\* C15: every call ends either by returning a success response (200, or 204
\* for the Census client) or by raising the client's own API error, the
\* Census one carrying the status of the response; nothing else escapes and no
\* other response is returned.
C15_ReturnsSuccessOrOwnApiError ==
    get_pc = "done" =>
        \/ /\ get_result.kind = "returned"
           /\ SuccessStatus(get_result.status_code)
        \/ /\ get_result.kind = "raised"
           /\ get_result.type = OwnApiError
           /\ client = "census" => get_result.status_code # None

(***************************************************************************)
(* More claims about Geography._build_geography_params                     *)
(***************************************************************************)
\* the levels of the `in` entries, in the order of the list
InLevels(result) == [i \in 1..Len(result.in) |-> ParseEntry(result.in[i]).level]

\* C16 as stated: in a returned parameter set the `in` entries are ordered
\* outermost level first, in the order of the geography's requires list.
C16_InEntriesOutermostFirst ==
    (Called /\ geo_result.status = "ok") =>
        InLevels(geo_result) = geography.requires

\* C16 as the code has it: in a returned parameter set the `in` entries are
\* ordered innermost level first, in the reverse of the order of the
\* geography's requires list, one entry per required level.
C16_InEntriesInnermostFirst ==
    (Called /\ geo_result.status = "ok") =>
        /\ Len(geo_result.in) = Len(geography.requires)
        /\ \A i \in 1..Len(geo_result.in) :
              InLevels(geo_result)[i]
                  = geography.requires[Len(geography.requires) + 1 - i]

\* a returned parameter set with two `in` entries whose order can be told
C16_Witness ==
    /\ Called
    /\ geo_result.status = "ok"
    /\ geography.requires = <<"state", "county">>
    /\ InLevels(geo_result) = <<"county", "state">>
    /\ Concrete("state") /\ Concrete("county")

(***************************************************************************)
(* Claims about GeographyCollection._build_geography_params_from_level     *)
(***************************************************************************)
\* the build of candidate i on the filters the caller supplied
BuildOnSupplied(i) ==
    _build_geography_params(level_geographies[i], level_supplied).result

SeveralMatched ==
    level_pc = "done" /\ level_mode = "name" /\ Len(level_geographies) >= 2

\* C17: called with a name that matches several geographies, the call returns
\* the first geography, in collection order, whose parameter build on the
\* caller's filters succeeds, with those parameters; when no build succeeds it
\* raises InvalidGeographyHierarchy holding the failure of every candidate.
C17_ReturnsFirstThatBuilds ==
    SeveralMatched =>
        IF \E i \in 1..Len(level_geographies) : BuildOnSupplied(i).status = "ok"
          THEN LET first == CHOOSE i \in 1..Len(level_geographies) :
                              /\ BuildOnSupplied(i).status = "ok"
                              /\ \A j \in 1..(i - 1) : BuildOnSupplied(j).status # "ok"
               IN level_result = LevelReturned(level_geographies[first],
                                               BuildOnSupplied(first))
          ELSE /\ level_result.status = "raised"
               /\ level_result.type = "InvalidGeographyHierarchy"
               /\ level_result.errors =
                     [i \in 1..Len(level_geographies) |-> BuildOnSupplied(i)]

(***************************************************************************)
(* Claims about _build_geography_params_from_features_within               *)
(***************************************************************************)
\* the parameter set feature k yields under candidate i, if any
Yields(i, k) == _build_broadest_params(fw_geographies[i], features_within[k])

WorksForAll(i) ==
    \A k \in 1..Len(features_within) : Yields(i, k).status = "ok"

DistinctSets(i) == { Yields(i, k) : k \in 1..Len(features_within) }

\* C18: the call returns one of the candidate geographies for which every
\* feature yields a parameter set, such that no other such candidate has
\* fewer distinct parameter sets, together with the parameter set of every
\* feature; when no candidate works for all features it raises.
C18_FewestDistinctParameterSets ==
    (fw_pc = "done" /\ Len(fw_geographies) > 0) =>
        IF \E i \in 1..Len(fw_geographies) : WorksForAll(i)
          THEN /\ fw_result.status = "returned"
               /\ \E i \in 1..Len(fw_geographies) :
                     /\ fw_result.geography = fw_geographies[i]
                     /\ WorksForAll(i)
                     /\ fw_result.params = DistinctSets(i)
                     /\ \A j \in 1..Len(fw_geographies) :
                           WorksForAll(j) =>
                               Cardinality(DistinctSets(i)) <= Cardinality(DistinctSets(j))
               /\ \A k \in 1..Len(features_within) :
                     Yields(CHOOSE i \in 1..Len(fw_geographies) :
                               fw_result.geography = fw_geographies[i], k)
                         \in fw_result.params
          ELSE fw_result.status = "raised"

\* two candidates work for two features; the second needs one parameter set
\* where the first needs two, and is the one returned
C18_Witness ==
    /\ fw_pc = "done"
    /\ Len(fw_geographies) = 2 /\ Len(features_within) = 2
    /\ WorksForAll(1) /\ WorksForAll(2)
    /\ Cardinality(DistinctSets(1)) = 2
    /\ Cardinality(DistinctSets(2)) = 1
    /\ fw_result.status = "returned"
    /\ fw_result.geography = fw_geographies[2]
    /\ fw_result.params = DistinctSets(2)

(***************************************************************************)
(* Claims about build_custom_scorer                                        *)
(***************************************************************************)
\* the score of every name of the layer against itself is 1.0
SelfScoreIsOne ==
    sc_pc = "done" =>
        \A i \in 1..Len(detailed_names) :
            ProcessedScorer(idf_map, detailed_names[i], {detailed_names[i]})
                [detailed_names[i]] = 1000

\* C19: a query equal to the detailed name of a candidate makes
\* get_area_by_name return that candidate.
C19_SelfMatchReturnsThatCandidate ==
    sc_pc = "done" =>
        \A i \in 1..Len(detailed_names) :
            parsed_name = detailed_names[i] =>
                /\ sc_result.status = "returned"
                /\ sc_result.GEOID = i

\* the number of detailed names that hold token t in some letter case
NamesHolding(t) ==
    Cardinality({ i \in 1..Len(detailed_names) :
                    \E w \in tokenize_feature_name(detailed_names[i]) :
                        str_lower(w) = str_lower(t) })

C25_OnlyFinalAttemptReturned ==
    pc = "returned" =>
        LET p == attempt_sizes[tries]
            n == (feature_count \div p) + 1
        IN /\ result_record_count = p
           /\ Len(all_feature_responses) = wave * n
           /\ \A i \in 1..Len(all_feature_responses) :
                 /\ all_feature_responses[i].resultRecordCount = p
                 /\ all_feature_responses[i].resultOffset = (i - 1) * p

\* the call returned after an attempt that had gathered a wave failed
C25_Witness ==
    /\ pc = "returned"
    /\ tries >= 2
    /\ discarded > 0
    /\ Len(all_feature_responses) > 0

\* C27: whatever attempts failed, the page size a wave is built with is at
\* least 1 (halving never brings it to 0) and the page count is never
\* computed by a division by zero.
C27_PageSizeNeverZero ==
    /\ pc \in {"build", "posted"} => result_record_count >= 1
    /\ exception.type # "ZeroDivisionError"

\* C28: every call eventually returns or raises, whatever the service
\* answers, as long as every batch of requests completes.
C28_EventuallyReturnsOrRaises == <>(pc \in {"returned", "raised"})

(***************************************************************************)
(* Further claims about _build_geography_params_from_level                 *)
(***************************************************************************)
\* C24: the call leaves the caller's filter map as it was supplied, so that
\* every candidate is evaluated against the supplied filters.
C24_FiltersLeftUnchanged ==
    level_pc = "done" => level_filters = level_supplied

\* C26: called with a name that matches exactly one geography, the call
\* returns that geography with its parameters when the filters are valid and
\* raises that geography's InvalidGeographyHierarchy when they are not.
C26_SingleNameMatchBuilds ==
    (level_pc = "done" /\ level_mode = "name" /\ Len(level_geographies) = 1) =>
        IF BuildOnSupplied(1).status = "ok"
          THEN level_result = LevelReturned(level_geographies[1], BuildOnSupplied(1))
          ELSE level_result = LevelRaised("InvalidGeographyHierarchy",
                                          <<BuildOnSupplied(1)>>)

(***************************************************************************)
(* Further claims about Layer.get_area_by_name                             *)
(***************************************************************************)
\* C22: after the refinement the call returns a candidate only if exactly one
\* token addition gave a confident match and that match was the only
\* candidate at or above the cutoff for that addition; otherwise it raises
\* the ambiguity error.
C22_RefinementAcceptsUniqueMatchOnly ==
    (match_pc = "done" /\ match_result.step = "refine") =>
        IF /\ Len(confident_shortlists) = 1
           /\ Len(confident_shortlists[1]) = 1
          THEN /\ match_result.status = "returned"
               /\ match_result.GEOID = confident_shortlists[1][1][3]
          ELSE match_result.status = "ambiguous"

(***************************************************************************)
(* Claims about concurrent calls of _set_attributes                        *)
(***************************************************************************)
\* threads that are past their fetch
Fetched == { t \in Threads : th_pc[t] \in {"assign", "returned", "raised"}
                             /\ t \in th_saw_unset }

\* C23: nothing but the flag guards the fetch, and the flag is set only at
\* the end: every thread that found the flag unset performs the resolving
\* fetch itself, so two threads that both test the flag before either sets
\* it fetch twice for the one Area.
C23_EveryThreadThatSawFlagUnsetFetches ==
    /\ th_fetches = Cardinality(Fetched)
    /\ \A t \in Threads :
          th_pc[t] \in {"fetch", "assign", "raised"} => t \in th_saw_unset
    /\ (th_flag = FALSE /\ \A t \in Threads : th_pc[t] \in {"ready", "fetch"}) =>
          \A t \in Threads : th_pc[t] = "ready" => ENABLED CheckFlag(t)

\* both threads passed the check while the flag was unset and each fetched
C23_Witness ==
    /\ th_saw_unset = {1, 2}
    /\ th_fetches = 2
    /\ th_pc[1] = "returned" /\ th_pc[2] = "returned"
    /\ th_flag = TRUE

(***************************************************************************)
(* Claims about AreaCollection.area_multilayer                             *)
(***************************************************************************)
\* C29: with cb = False the Area that area_multilayer returns is never
\* intersected with the national cartographic boundary, whether or not
\* specific_layer is given.
C29_CbPassedOnEveryPath ==
    (ml_pc = "done" /\ ml_cb = FALSE /\ Get(ml_result).kind = "Area") =>
        Get(ml_result).clipped = FALSE

(***************************************************************************)
(* Claims about Layer.get_features                                         *)
(***************************************************************************)
FeatureRequests == SelectSeq(gf_requests, LAMBDA r : r.kind = "features")

\* C21: with return_attributes and an area_threshold, once the attribute
\* query (region sent, no geometry) has returned, a geometry query follows
\* that is restricted to exactly the OBJECTIDs the attribute query returned,
\* also when there are none.
C21_GeometryQueryRestrictedToReturnedIds ==
    (gf_pc = "done" /\ gf_return_attributes /\ gf_threshold # None
       /\ gf_attribute_ids # None) =>
        /\ Len(FeatureRequests) = 2
        /\ FeatureRequests[1].returnGeometry = FALSE
        /\ FeatureRequests[2].returnGeometry = TRUE
        /\ FeatureRequests[2].objectIds = gf_attribute_ids

\* C30: whenever return_geometry is true and the call returns, a request
\* with returnGeometry = true was posted and every returned feature carries
\* its geometry.
C30_ReturnGeometryAlwaysFetchesGeometry ==
    (gf_pc = "done" /\ gf_return_geometry /\ Get(gf_result).kind = "frame") =>
        /\ \E i \in 1..Len(gf_requests) : gf_requests[i].returnGeometry
        /\ \A row \in Get(gf_result).rows : row.geometry # None

====
